---------------------------- MODULE Spec2Model ----------------------------
(***************************************************************************)
(* A model of the result normalisation core of musz_lenex:                 *)
(*   scripts/import_lenex.py              the structured (LENEX) adapter   *)
(*   scripts/scrape_musz_result_pages.py  the result-page scrape adapter   *)
(*   scripts/scrape_musz_results.py       the summary-page scrape adapter  *)
(*                                                                         *)
(* Texts are sequences of one-character strings, so that upper(), strip(), *)
(* replace(), split(), int() and the regular expression of the time        *)
(* parsers are computed character by character, as Python computes them.   *)
(***************************************************************************)
EXTENDS Integers, Sequences, FiniteSets, TLC

VARIABLES
    time_text,    \* the text handed to the three _parse_swimtime functions
    time_src,     \* where time_text comes from: [form, h, sep, frac]
    parsed,       \* parser name -> what that parser returned for time_text
    lx_meet,      \* the tables of the canonical schema, each a set of rows
    lx_session,
    lx_event,
    lx_heat,
    lx_club,
    lx_athlete,
    lx_athleteclubaffiliation,
    lx_result,
    lx_split,
    importedlenexfile,   \* the processing status records, key -> row
    serial,       \* the next value of each table's id sequence
    committed,    \* the tables as of the last commit
    imp,          \* import_lenex.py: the locals of main and import_lenex_file
    scr,          \* the scrape adapters: the locals of main and scrape_and_import
    resolved      \* every <<club code, club id>> a resolve-or-create returned

codecVars == <<time_text, time_src, parsed>>

tableVars == <<lx_meet, lx_session, lx_event, lx_heat, lx_club, lx_athlete,
               lx_athleteclubaffiliation, lx_result, lx_split, importedlenexfile>>

dbVars == <<tableVars, serial, committed>>

vars == <<codecVars, dbVars, imp, scr, resolved>>

(***************************************************************************)
(* Python values                                                           *)
(***************************************************************************)

\* An integer result, Python's None, and an exception leaving a function.
Some(n) == [kind |-> "int", val |-> n]
None == [kind |-> "None", val |-> 0]
Raise(e) == [kind |-> e, val |-> 0]
Pending == [kind |-> "pending", val |-> 0]

\* A text argument that is None (an absent XML attribute).
NoneText == <<"None">>

Digits == {"0", "1", "2", "3", "4", "5", "6", "7", "8", "9"}

DigitVal(c) ==
    CASE c = "0" -> 0 [] c = "1" -> 1 [] c = "2" -> 2 [] c = "3" -> 3
      [] c = "4" -> 4 [] c = "5" -> 5 [] c = "6" -> 6 [] c = "7" -> 7
      [] c = "8" -> 8 [] c = "9" -> 9 [] OTHER -> 0

LowerLetters ==
    <<"a", "b", "c", "d", "e", "f", "g", "h", "i", "j", "k", "l", "m",
      "n", "o", "p", "q", "r", "s", "t", "u", "v", "w", "x", "y", "z">>

UpperLetters ==
    <<"A", "B", "C", "D", "E", "F", "G", "H", "I", "J", "K", "L", "M",
      "N", "O", "P", "Q", "R", "S", "T", "U", "V", "W", "X", "Y", "Z">>

\* str.upper(), one character.
UpperChar(c) ==
    IF \E i \in 1..26 : LowerLetters[i] = c
    THEN UpperLetters[CHOOSE i \in 1..26 : LowerLetters[i] = c]
    ELSE c

\* str.upper()
Upper(s) == [i \in 1..Len(s) |-> UpperChar(s[i])]

\* str.replace(a, b) for one-character a and b.
Replace(s, a, b) == [i \in 1..Len(s) |-> IF s[i] = a THEN b ELSE s[i]]

Whitespace == {" "}

RECURSIVE LStrip(_)
LStrip(s) ==
    IF s # <<>> /\ Head(s) \in Whitespace THEN LStrip(Tail(s)) ELSE s

RECURSIVE RStrip(_)
RStrip(s) ==
    IF s # <<>> /\ s[Len(s)] \in Whitespace
    THEN RStrip(SubSeq(s, 1, Len(s) - 1))
    ELSE s

\* str.strip()
Strip(s) == RStrip(LStrip(s))

\* The index of the first sep in s, or 0.
RECURSIVE FindFrom(_, _, _)
FindFrom(s, sep, i) ==
    IF i > Len(s) THEN 0
    ELSE IF s[i] = sep THEN i
    ELSE FindFrom(s, sep, i + 1)

\* str.split(sep) for a one-character sep: always at least one field.
RECURSIVE Split(_, _)
Split(s, sep) ==
    LET i == FindFrom(s, sep, 1) IN
    IF i = 0 THEN <<s>>
    ELSE <<SubSeq(s, 1, i - 1)>> \o Split(SubSeq(s, i + 1, Len(s)), sep)

\* sep in s
Contains(s, sep) == FindFrom(s, sep, 1) # 0

\* s[:n]
Take(s, n) == SubSeq(s, 1, IF Len(s) < n THEN Len(s) ELSE n)

\* The value of a sequence of digits and underscores, the underscores skipped.
RECURSIVE DigitsVal(_, _)
DigitsVal(s, acc) ==
    IF s = <<>> THEN acc
    ELSE IF Head(s) = "_" THEN DigitsVal(Tail(s), acc)
    ELSE DigitsVal(Tail(s), acc * 10 + DigitVal(Head(s)))

\* What int() accepts after the sign: digits, single underscores between them.
IntBody(b) ==
    /\ b # <<>>
    /\ b[1] \in Digits
    /\ b[Len(b)] \in Digits
    /\ \A i \in 1..Len(b) : b[i] \in Digits \cup {"_"}
    /\ \A i \in 1..(Len(b) - 1) : ~(b[i] = "_" /\ b[i + 1] = "_")

\* int(s) for a str: surrounding whitespace is dropped and one sign accepted;
\* anything else is a ValueError.
PyInt(s) ==
    LET t == Strip(s)
        signed == t # <<>> /\ t[1] \in {"-", "+"}
        b == IF signed THEN Tail(t) ELSE t
    IN  IF IntBody(b)
        THEN Some(IF signed /\ t[1] = "-" THEN 0 - DigitsVal(b, 0) ELSE DigitsVal(b, 0))
        ELSE Raise("ValueError")

\* str.isdigit() over the characters of the model's alphabet.
IsDigit(s) == s # <<>> /\ \A i \in 1..Len(s) : s[i] \in Digits

\* The first failure among the int() results rs, or None when all succeeded.
Failed(rs) == \E i \in 1..Len(rs) : rs[i].kind # "int"

FirstFailure(rs) == rs[CHOOSE i \in 1..Len(rs) : rs[i].kind # "int" /\ \A j \in 1..(i - 1) : rs[j].kind = "int"]

(***************************************************************************)
(* The time codec                                                          *)
(***************************************************************************)

\* import_lenex.py: the tokens that are no time.
LenexTokens == {<<"N", "T">>, <<"D", "N", "S">>, <<"D", "S", "Q">>, <<"D", "Q">>,
                <<"S", "C", "R">>, <<>>}

\* Both scrape adapters: the tokens that are no time.
ScrapeTokens == {<<"N", "T">>, <<"D", "N", "S">>, <<"D", "S", "Q">>, <<"D", "Q">>,
                 <<"V", "L">>, <<"-">>, <<>>}

\* except (ValueError, IndexError): return None
CaughtByParser == {"ValueError", "IndexError"}

\* A variant that catches IndexError alone.
ExceptReturnNone_IndexErrorOnly(r) ==
    IF r.kind = "IndexError" THEN None ELSE r

\* The except clause of the parsers: a caught exception becomes None, any other
\* leaves the function.
ExceptReturnNone(r) ==
    IF r.kind \in CaughtByParser THEN None ELSE r

\* A variant that reads the fraction as it stands: int(hund).
SecPart_Unpadded(sec_part) ==
    IF Contains(sec_part, ".")
    THEN LET f == Split(sec_part, ".") IN
         IF Len(f) # 2 THEN <<Raise("ValueError"), Raise("ValueError")>>
         ELSE <<PyInt(f[1]), PyInt(f[2])>>
    ELSE <<PyInt(sec_part), Some(0)>>

\* "sec.hund" or "sec": (seconds, hundredths), the fraction padded with "00"
\* and cut to two characters; more than one "." fails the unpacking.
SecPart(sec_part) ==
    IF Contains(sec_part, ".")
    THEN LET f == Split(sec_part, ".") IN
         IF Len(f) # 2 THEN <<Raise("ValueError"), Raise("ValueError")>>
         ELSE <<PyInt(f[1]), PyInt(Take(f[2] \o <<"0", "0">>, 2))>>
    ELSE <<PyInt(sec_part), Some(0)>>

\* import_lenex.py _parse_swimtime, the body of its try statement.
LenexTimeBody(parts) ==
    LET n == Len(parts)
        hours == IF n >= 3 THEN PyInt(parts[1]) ELSE Some(0)
        minutes == IF n >= 3 THEN PyInt(parts[2])
                   ELSE IF n = 2 THEN PyInt(parts[1]) ELSE Some(0)
        sec_part == IF n >= 3 THEN parts[3] ELSE IF n = 2 THEN parts[2] ELSE parts[1]
        sh == SecPart(sec_part)
        rs == <<hours, minutes, sh[1], sh[2]>>
    IN  IF Failed(rs) THEN FirstFailure(rs)
        ELSE Some(hours.val * 360000 + minutes.val * 6000 + sh[1].val * 100 + sh[2].val)

\* import_lenex.py _parse_swimtime
Lenex_parse_swimtime(swimtime) ==
    IF swimtime = NoneText \/ swimtime = <<>> \/ Upper(swimtime) \in LenexTokens
    THEN None
    ELSE ExceptReturnNone(LenexTimeBody(Split(Strip(Replace(swimtime, ",", ".")), ":")))

\* The fallback of both scrape parsers: "m:sec" or "sec"; fields after the
\* second are not read.
ScrapeTimeBody(parts) ==
    LET n == Len(parts)
        m == IF n = 1 THEN Some(0) ELSE PyInt(parts[1])
        sec == IF n = 1 THEN parts[1] ELSE parts[2]
        f == Split(sec, ".")
        unpack == IF Contains(sec, ".") /\ Len(f) # 2 THEN Raise("ValueError") ELSE Some(0)
        hund == IF Contains(sec, ".")
                THEN (IF Len(f) = 2 THEN PyInt(Take(f[2] \o <<"0", "0">>, 2)) ELSE Some(0))
                ELSE Some(0)
        sec_i == IF Contains(sec, ".") THEN PyInt(f[1]) ELSE PyInt(sec)
        rs == <<m, unpack, hund, sec_i>>
    IN  IF Failed(rs) THEN FirstFailure(rs)
        ELSE Some(m.val * 6000 + sec_i.val * 100 + hund.val)

\* scrape_musz_results.py _parse_swimtime
Results_parse_swimtime(s) ==
    IF s = NoneText \/ s = <<>> \/ Upper(s) \in ScrapeTokens
    THEN None
    ELSE ExceptReturnNone(ScrapeTimeBody(Split(Strip(Replace(s, ",", ".")), ":")))

\* (\d{1,2}):(\d{2})\.(\d{2}) matched at position i with k minute digits.
ClockAt(s, i, k) ==
    /\ i + k + 5 <= Len(s)
    /\ \A j \in i..(i + k - 1) : s[j] \in Digits
    /\ s[i + k] = ":"
    /\ s[i + k + 1] \in Digits /\ s[i + k + 2] \in Digits
    /\ s[i + k + 3] = "."
    /\ s[i + k + 4] \in Digits /\ s[i + k + 5] \in Digits

ClockMatches(s) ==
    {p \in (1..Len(s)) \X {1, 2} : ClockAt(s, p[1], p[2])}

\* re.search: the leftmost match (one position admits one k only).
ClockSearch(s) ==
    LET ms == ClockMatches(s) IN
    CHOOSE p \in ms : \A q \in ms : p[1] <= q[1]

\* scrape_musz_result_pages.py _parse_swimtime
Pages_parse_swimtime(s) ==
    IF s = NoneText \/ s = <<>> \/ Upper(s) \in ScrapeTokens
    THEN None
    ELSE LET t == Strip(Replace(s, ",", ".")) IN
         IF ClockMatches(t) # {}
         THEN LET p == ClockSearch(t)
                  i == p[1]
                  k == p[2]
              IN  Some(DigitsVal(SubSeq(t, i, i + k - 1), 0) * 6000
                       + DigitsVal(SubSeq(t, i + k + 1, i + k + 2), 0) * 100
                       + DigitsVal(SubSeq(t, i + k + 4, i + k + 5), 0))
         ELSE ExceptReturnNone(ScrapeTimeBody(Split(t, ":")))

(***************************************************************************)
(* Formatting hundredths as text (the inverse the codec is tested against) *)
(***************************************************************************)

DigitChar(d) ==
    CASE d = 0 -> "0" [] d = 1 -> "1" [] d = 2 -> "2" [] d = 3 -> "3"
      [] d = 4 -> "4" [] d = 5 -> "5" [] d = 6 -> "6" [] d = 7 -> "7"
      [] d = 8 -> "8" [] OTHER -> "9"

\* n in 0..99 as two digits.
TwoDigits(n) == <<DigitChar(n \div 10), DigitChar(n % 10)>>

\* MM:SS.hh
FormatMMSS(h) ==
    TwoDigits(h \div 6000) \o <<":">> \o TwoDigits((h % 6000) \div 100)
        \o <<".">> \o TwoDigits(h % 100)

\* HH:MM:SS.hh
FormatHHMMSS(h) ==
    TwoDigits(h \div 360000) \o <<":">> \o TwoDigits((h % 360000) \div 6000)
        \o <<":">> \o TwoDigits((h % 6000) \div 100) \o <<".">> \o TwoDigits(h % 100)

(***************************************************************************)
(* The canonical tables                                                    *)
(*                                                                         *)
(* A text column holds a sequence of characters or NoneText (NULL); a      *)
(* nullable integer column holds Some(n) or None; a date is a number       *)
(* YYYYMMDD, NullDate standing for NULL.  The database is taken to answer  *)
(* every statement: connection and constraint failures are not modelled.   *)
(***************************************************************************)

NullDate == 0

\* not x, for a str or None
Falsy(x) == x = NoneText \/ x = <<>>

\* a or b
Or(a, b) == IF Falsy(a) THEN b ELSE a

\* COALESCE(a, b) over text columns
Coalesce(a, b) == IF a # NoneText THEN a ELSE b

\* COALESCE(a, b) over date columns
CoalesceDate(a, b) == IF a # NullDate THEN a ELSE b

\* int(s) if s and s.isdigit() else None
IntIfDigits(s) == IF ~Falsy(s) /\ IsDigit(s) THEN Some(DigitsVal(s, 0)) ELSE None

\* A dict: a function on the keys it holds.
EmptyDict == <<>>

\* d[k] = v
DictSet(d, k, v) == [x \in (DOMAIN d) \cup {k} |-> IF x = k THEN v ELSE d[x]]

\* d.get(k), 0 standing for None (row ids start at 1)
DictGet(d, k) == IF k \in DOMAIN d THEN d[k] ELSE 0

Tables ==
    [lx_meet |-> lx_meet, lx_session |-> lx_session, lx_event |-> lx_event,
     lx_heat |-> lx_heat, lx_club |-> lx_club, lx_athlete |-> lx_athlete,
     lx_athleteclubaffiliation |-> lx_athleteclubaffiliation,
     lx_result |-> lx_result, lx_split |-> lx_split,
     importedlenexfile |-> importedlenexfile]

\* The tables as this step leaves them: what conn.commit() makes durable.
TablesAfter ==
    [lx_meet |-> lx_meet', lx_session |-> lx_session', lx_event |-> lx_event',
     lx_heat |-> lx_heat', lx_club |-> lx_club', lx_athlete |-> lx_athlete',
     lx_athleteclubaffiliation |-> lx_athleteclubaffiliation',
     lx_result |-> lx_result', lx_split |-> lx_split',
     importedlenexfile |-> importedlenexfile']

EmptyTables ==
    [lx_meet |-> {}, lx_session |-> {}, lx_event |-> {}, lx_heat |-> {},
     lx_club |-> {}, lx_athlete |-> {}, lx_athleteclubaffiliation |-> {},
     lx_result |-> {}, lx_split |-> {}, importedlenexfile |-> <<>>]

SerialStart ==
    [lx_session |-> 1, lx_event |-> 1, lx_heat |-> 1, lx_club |-> 1,
     lx_athleteclubaffiliation |-> 1, lx_result |-> 1, lx_split |-> 1]

\* The characters of a few texts.
T_LCM == <<"L", "C", "M">>
T_SCM == <<"S", "C", "M">>
T_Unknown == <<"U", "n", "k", "n", "o", "w", "n">>
T_FREE == <<"F", "R", "E", "E">>
T_X == <<"X">>
T_lenex == <<"l", "e", "n", "e", "x">>
T_scraped == <<"s", "c", "r", "a", "p", "e", "d">>

\* _parse_date over the date texts of the model: ISO, dotted, and no date.
D_0501 == <<"2", "0", "2", "4", "-", "0", "5", "-", "0", "1">>
D_0502 == <<"0", "2", ".", "0", "5", ".", "2", "0", "2", "4">>
D_2010 == <<"2", "0", "1", "0", "-", "0", "1", "-", "0", "1">>
D_bad == <<"x">>

Lenex_parse_date(s) ==
    CASE s = D_0501 -> 20240501
      [] s = D_0502 -> 20240502
      [] s = D_2010 -> 20100101
      [] OTHER -> NullDate

\* INSERT INTO lx_meet ... ON CONFLICT (id) DO UPDATE of import_lenex.py:
\* name and course from the document where not NULL, datasource 'lenex'.
LenexUpsertMeet(meets, meet_id, meet_name, meet_course) ==
    IF \E m \in meets : m.id = meet_id
    THEN {IF m.id = meet_id
          THEN [m EXCEPT !.name = Coalesce(meet_name, m.name),
                         !.course = Coalesce(meet_course, m.course),
                         !.datasource = T_lenex]
          ELSE m : m \in meets}
    ELSE meets \cup {[id |-> meet_id, name |-> meet_name, startdate |-> NullDate,
                      enddate |-> NullDate, course |-> meet_course,
                      datasource |-> T_lenex]}

\* SELECT MIN(sessiondate) / MAX(sessiondate) FROM lx_session WHERE meetid = id
SessionDates(sessions, meet_id) ==
    {s.sessiondate : s \in {x \in sessions : x.meetid = meet_id /\ x.sessiondate # NullDate}}

MinDate(ds) == IF ds = {} THEN NullDate ELSE CHOOSE d \in ds : \A e \in ds : d <= e

MaxDate(ds) == IF ds = {} THEN NullDate ELSE CHOOSE d \in ds : \A e \in ds : d >= e

\* UPDATE lx_meet SET startdate = ..., enddate = ... WHERE id = meet_id
UpdateMeetDates(meets, sessions, meet_id) ==
    {IF m.id = meet_id
     THEN [m EXCEPT !.startdate = MinDate(SessionDates(sessions, meet_id)),
                    !.enddate = MaxDate(SessionDates(sessions, meet_id))]
     ELSE m : m \in meets}

\* SELECT id FROM lx_club WHERE lenexclubcode = code; fetchone(): 0 for no row.
ClubLookup(clubs, code) ==
    IF \E c \in clubs : c.lenexclubcode = code
    THEN (CHOOSE c \in clubs : c.lenexclubcode = code).id
    ELSE 0

\* Resolve or create a club: <<the table afterwards, the club id, inserted>>.
ResolveOrCreateClub(clubs, next_id, code, name, nation) ==
    IF ClubLookup(clubs, code) # 0
    THEN <<clubs, ClubLookup(clubs, code), FALSE>>
    ELSE <<clubs \cup {[id |-> next_id, lenexclubcode |-> code, name |-> name,
                        nation |-> nation]}, next_id, TRUE>>

\* INSERT INTO lx_athlete ... ON CONFLICT (id) DO UPDATE SET
\*   x = COALESCE(EXCLUDED.x, lx_athlete.x)  for the columns in cols
UpsertAthlete(athletes, new, cols) ==
    IF \E a \in athletes : a.id = new.id
    THEN {IF a.id = new.id
          THEN [a EXCEPT
                  !.firstname = IF "firstname" \in cols THEN Coalesce(new.firstname, a.firstname) ELSE a.firstname,
                  !.lastname = IF "lastname" \in cols THEN Coalesce(new.lastname, a.lastname) ELSE a.lastname,
                  !.birthdate = IF "birthdate" \in cols THEN CoalesceDate(new.birthdate, a.birthdate) ELSE a.birthdate,
                  !.gender = IF "gender" \in cols THEN Coalesce(new.gender, a.gender) ELSE a.gender]
          ELSE a : a \in athletes}
    ELSE athletes \cup {new}

LenexAthleteCols == {"firstname", "lastname", "birthdate", "gender"}

\* An INSERT without the WHERE NOT EXISTS.
InsertAffiliation_NoGuard(affs, next_id, athlete_id, club_id, validfrom, meet_id) ==
    <<affs \cup {[id |-> next_id, athleteid |-> athlete_id, clubid |-> club_id,
                  validfrom |-> validfrom, validto |-> NullDate,
                  sourcemeetid |-> meet_id]}, TRUE>>

\* INSERT INTO lx_athleteclubaffiliation ... WHERE NOT EXISTS (the same
\* athlete, club and meet)
InsertAffiliation(affs, next_id, athlete_id, club_id, validfrom, meet_id) ==
    IF \E f \in affs : f.athleteid = athlete_id /\ f.clubid = club_id /\ f.sourcemeetid = meet_id
    THEN <<affs, FALSE>>
    ELSE <<affs \cup {[id |-> next_id, athleteid |-> athlete_id, clubid |-> club_id,
                       validfrom |-> validfrom, validto |-> NullDate,
                       sourcemeetid |-> meet_id]}, TRUE>>

\* UPDATE importedlenexfile SET status = s WHERE onlineeventid = id
\* (a comparison with NULL selects no row).
UpdateStatus(files, id, s) ==
    [k \in DOMAIN files |->
        IF id # NoneText /\ files[k].onlineeventid = id
        THEN [files[k] EXCEPT !.status = s]
        ELSE files[k]]

\* A result row; the columns an adapter does not write are NULL.
ResultRow(id, athleteid, heatid, eventid, heatnumber, clubid, lane, th, status, rank, rt) ==
    [id |-> id, athleteid |-> athleteid, heatid |-> heatid, eventid |-> eventid,
     heatnumber |-> heatnumber, clubid |-> clubid, lane |-> lane,
     timehundredths |-> th, status |-> status, rank |-> rank,
     reactiontime |-> rt]

\* str.replace(c, '') for a one-character c.
Remove(s, c) == SelectSeq(s, LAMBDA x : x # c)

\* tok in s
IsSub(tok, s) ==
    \E i \in 1..(Len(s) - Len(tok) + 1) : SubSeq(s, i, i + Len(tok) - 1) = tok

\* s.split()[0] if s else ''
FirstWord(s) ==
    LET t == Strip(s) IN
    IF FindFrom(t, " ", 1) = 0 THEN t ELSE SubSeq(t, 1, FindFrom(t, " ", 1) - 1)

\* lst.index(x) + 1
IndexOf(lst, x) == CHOOSE i \in 1..Len(lst) : lst[i] = x /\ \A j \in 1..(i - 1) : lst[j] # x

\* date(year, 1, 1)
JanFirst(year) == year * 10000 + 101

\* A datasource that is 'scraped' after every scrape.
ScrapeDatasource_Always(old) == T_scraped

\* CASE WHEN lx_meet.datasource='lenex' THEN lx_meet.datasource ELSE 'scraped' END
ScrapeDatasource(old) == IF old = T_lenex THEN old ELSE T_scraped

\* INSERT INTO lx_meet ... ON CONFLICT (id) DO UPDATE of the scrape adapters:
\* a row the structured import wrote keeps datasource 'lenex'.
ScrapeUpsertMeet(meets, meet_id, page) ==
    IF \E m \in meets : m.id = meet_id
    THEN {IF m.id = meet_id
          THEN [m EXCEPT !.name = Coalesce(page.name, m.name),
                         !.startdate = CoalesceDate(page.startdate, m.startdate),
                         !.enddate = CoalesceDate(page.enddate, m.enddate),
                         !.course = Coalesce(page.course, m.course),
                         !.datasource = ScrapeDatasource(m.datasource)]
          ELSE m : m \in meets}
    ELSE meets \cup {[id |-> meet_id, name |-> page.name, startdate |-> page.startdate,
                      enddate |-> page.enddate, course |-> page.course,
                      datasource |-> T_scraped]}

\* The status a result row's time cell shows, or None.
ScrapeStatusTokens ==
    <<<<"D", "N", "S">>, <<"D", "S", "Q">>, <<"D", "Q">>, <<"D", "N", "F">>,
      <<"S", "C", "R">>, <<"N", "T">>>>

PagesStatus(time_raw) ==
    LET hits == {i \in 1..Len(ScrapeStatusTokens) : IsSub(ScrapeStatusTokens[i], Upper(time_raw))} IN
    IF hits = {} THEN NoneText
    ELSE ScrapeStatusTokens[CHOOSE i \in hits : \A j \in hits : i <= j]

\* The time of a result row's time cell: the first clock text in it, else its
\* first word.
PagesRowTime(time_raw) ==
    LET time_s == IF ClockMatches(time_raw) # {}
                  THEN SubSeq(time_raw, ClockSearch(time_raw)[1],
                              ClockSearch(time_raw)[1] + ClockSearch(time_raw)[2] + 5)
                  ELSE FirstWord(time_raw)
    IN  IF time_s = <<>> THEN None ELSE Pages_parse_swimtime(time_s)

\* (lx_event_id, heatnumber, umk) in seen_heat_athlete
AlreadySeen_Never(key, seen) == FALSE

AlreadySeen(key, seen) == key \in seen

\* The lane cell: int(ln_s) when the cell without its '-' is all digits.
PagesLane(ln_col, ln_s) ==
    IF ln_col /\ ln_s # <<>> /\ IsDigit(Remove(ln_s, "-"))
    THEN PyInt(ln_s)
    ELSE None

\* The locals of the scrape adapters' main and scrape_and_import.
ScrIdle ==
    [adapter |-> "none", pc |-> "idle", todo |-> {}, cur |-> 0, meet_id |-> 0,
     session_id |-> 0, next_event_id |-> 0, event_options |-> {}, max_event |-> 0,
     event_id |-> 0, lx_event_id |-> 0, heat_ids |-> <<>>, heat_pos |-> 0,
     heatnumber |-> 0, ln_col |-> FALSE, umk |-> 0,
     seen_events |-> {}, seen_heat_athlete |-> {}, session_ids |-> EmptyDict,
     outcome |-> "none", dup_skips |-> 0,
     probed |-> <<>>, next_probe |-> "none", fetch |-> "none",
     club_name |-> <<>>, club_id |-> 0, mine |-> {},
     cell |-> [time_raw |-> <<>>, rank_s |-> <<>>, birth_year |-> 0],
     used |-> [sessions |-> 0, events |-> 0, rows |-> 0], runs |-> 0]

\* A database nothing has been written to.
DbIdle ==
    /\ lx_meet = {}
    /\ lx_session = {}
    /\ lx_event = {}
    /\ lx_heat = {}
    /\ lx_club = {}
    /\ lx_athlete = {}
    /\ lx_athleteclubaffiliation = {}
    /\ lx_result = {}
    /\ lx_split = {}
    /\ importedlenexfile = <<>>
    /\ serial = SerialStart
    /\ committed = EmptyTables

\* The locals of main() and import_lenex_file(); pc is the position in them.
ImpIdle ==
    [pc |-> "idle", todo |-> {}, cur |-> 0, onlineeventid |-> NoneText,
     meet_id |-> 0, eventid_to_lx_event |-> EmptyDict,
     heatid_to_lx_heat |-> EmptyDict, sessionid_to_lx_session |-> EmptyDict,
     club_code_to_id |-> EmptyDict, session_id |-> 0, lx_event_id |-> 0,
     club_id |-> 0, athlete_id |-> 0, result_id |-> 0,
     meet_elem |-> [name |-> NoneText, course |-> NoneText],
     res |-> [eventid |-> NoneText, heatid |-> NoneText, lane |-> NoneText,
              swimtime |-> NoneText, status |-> NoneText, disqualified |-> NoneText,
              place |-> NoneText, rank |-> NoneText, reactiontime |-> NoneText],
     club_elem |-> [code |-> NoneText, name |-> NoneText, nation |-> NoneText],
     mine |-> {},
     outcome |-> "none", raised_at |-> "none",
     used |-> [sessions |-> 0, events |-> 0, heats |-> 0, clubs |-> 0,
               athletes |-> 0, results |-> 0, splits |-> 0],
     before |-> EmptyTables, runs |-> 0]

(***************************************************************************)
(* The codec's inputs                                                      *)
(***************************************************************************)

\* The longest text drawn freely from TimeAlphabet.
MaxRawLen == 4

TimeAlphabet == {"0", "1", ":", ".", ",", "-", " ", "x"}

RawTexts == UNION {[1..n -> TimeAlphabet] : n \in 0..MaxRawLen}

\* The non-finish tokens, in both cases, and the texts the specification names.
NamedTexts ==
    {<<"N", "T">>, <<"D", "N", "S">>, <<"D", "S", "Q">>, <<"D", "Q">>,
     <<"S", "C", "R">>, <<"V", "L">>, <<"-">>, <<>>, NoneText,
     <<"n", "t">>, <<"d", "n", "s">>, <<"d", "s", "q">>, <<"s", "c", "r">>,
     <<"D", "N", "F">>,
     <<"1", ":", "0", "2", ".", "9">>,
     <<"1", ":", "0", "2", ".", "8", "7", "5">>,
     <<"1", ":", "0", "2", ",", "9">>,
     <<"1", ":", "0", "2", ",", "8", "7", "5">>,
     <<"1", ":", "0", "2", ".", "5", "0">>,
     <<"4", "0", ".", "0", "9">>,
     <<"1", ":", "2", ":", "3", ":", "x">>,
     <<"1", ".", "2", ".", "3">>}

\* Minutes, seconds and hundredths at the edges of their one- and two-digit
\* ranges; a valid time below one hour is m * 6000 + s * 100 + c.
MinuteSamples == {0, 1, 9, 10, 59}
SecondSamples == {0, 1, 9, 10, 59}
HundSamples == {0, 1, 9, 10, 50, 99}

HSamples ==
    {m * 6000 + s * 100 + c : m \in MinuteSamples, s \in SecondSamples, c \in HundSamples}

\* The fraction digits of the padding rule.
MaxFracLen == 3

FracDigits == {"0", "5", "7", "8", "9"}

Fractions == UNION {[1..n -> FracDigits] : n \in 1..MaxFracLen}

\* "m:ss" + separator + fraction, the whole seconds being m * 60 + ss.
FracText(m, s, sep, frac) ==
    <<DigitChar(m)>> \o <<":">> \o TwoDigits(s) \o <<sep>> \o frac

FracInputs ==
    {[form |-> "frac", h |-> m * 6000 + s * 100, sep |-> sep, frac |-> fr,
      text |-> FracText(m, s, sep, fr)] :
        m \in {0, 1}, s \in {2, 59}, sep \in {".", ","}, fr \in Fractions}

CodecInputs ==
    {[form |-> "raw", h |-> 0, sep |-> ".", frac |-> <<>>, text |-> t] : t \in RawTexts \cup NamedTexts}
    \cup {[form |-> "MMSS", h |-> h, sep |-> ".", frac |-> <<>>, text |-> FormatMMSS(h)] : h \in HSamples}
    \cup {[form |-> "HHMMSS", h |-> h, sep |-> ".", frac |-> <<>>, text |-> FormatHHMMSS(h)] : h \in HSamples}
    \cup FracInputs

Parsers == {"import_lenex", "result_pages", "results"}

CodecInit ==
    /\ \E inp \in CodecInputs :
          /\ time_text = inp.text
          /\ time_src = [form |-> inp.form, h |-> inp.h, sep |-> inp.sep, frac |-> inp.frac]
    /\ parsed = [p \in Parsers |-> Pending]
    /\ DbIdle
    /\ imp = ImpIdle
    /\ scr = ScrIdle
    /\ resolved = {}

\* import_lenex.py applies its parser to time_text.
ParseLenex ==
    /\ parsed["import_lenex"] = Pending
    /\ parsed' = [parsed EXCEPT !["import_lenex"] = Lenex_parse_swimtime(time_text)]
    /\ UNCHANGED <<time_text, time_src, dbVars, imp, scr, resolved>>

\* scrape_musz_result_pages.py applies its parser to time_text.
ParsePages ==
    /\ parsed["result_pages"] = Pending
    /\ parsed' = [parsed EXCEPT !["result_pages"] = Pages_parse_swimtime(time_text)]
    /\ UNCHANGED <<time_text, time_src, dbVars, imp, scr, resolved>>

\* scrape_musz_results.py applies its parser to time_text.
ParseResults ==
    /\ parsed["results"] = Pending
    /\ parsed' = [parsed EXCEPT !["results"] = Results_parse_swimtime(time_text)]
    /\ UNCHANGED <<time_text, time_src, dbVars, imp, scr, resolved>>

CodecNext == ParseLenex \/ ParsePages \/ ParseResults

SpecCodec == CodecInit /\ [][CodecNext]_vars

(***************************************************************************)
(* The structured import: main() and import_lenex_file() of                *)
(* import_lenex.py.  The document is read element by element; each action  *)
(* is the body of one loop iteration, and the element it reads is any      *)
(* element of the catalog of its kind.                                     *)
(***************************************************************************)

MaxSessions == 2
\* Two events and two heats: the least document in which a RESULT can name
\* one event and a heat of another.  A specification of documents with one
\* event and one heat starts with the others spent.
MaxEvents == 2
MaxHeats == 2
MaxClubs == 2
MaxAthletes == 2
MaxResults == 2
MaxSplits == 1
\* The runs of main() a behaviour can hold; a specification of a single
\* run starts with the others spent.
MaxRuns == 2

\* importedlenexfile rows to start from; on_disk is os.path.isfile of the
\* row's file.
FileRow(id, filename, status, on_disk) ==
    [onlineeventid |-> id, filename |-> filename, status |-> status, on_disk |-> on_disk]

FileRows ==
    {FileRow(<<"7">>, <<"a">>, "downloaded", TRUE),
     FileRow(NoneText, <<"a">>, "downloaded", TRUE),
     FileRow(<<"x", "7">>, <<"a">>, "backed_up", TRUE),
     FileRow(<<"7">>, <<"a">>, "backed_up", FALSE),
     FileRow(<<"7">>, NoneText, "lenex_not_found", FALSE)}

\* A record of another meet, which no run of the import selects.
OtherFile == FileRow(<<"8">>, NoneText, "lenex_not_found", FALSE)

MeetElems ==
    {[name |-> <<"M">>, course |-> T_SCM],
     [name |-> NoneText, course |-> NoneText]}

SessionElems ==
    {[number |-> <<"1">>, date |-> D_0501],
     [number |-> NoneText, date |-> D_bad]}

EventElems ==
    {[eventid |-> <<"1", "0">>, number |-> <<"1">>, gender |-> <<"f">>,
      round |-> <<"T", "I", "M">>, swimstyle |-> TRUE,
      stroke |-> <<"b", "a", "c", "k">>, distance |-> <<"5", "0">>],
     [eventid |-> NoneText, number |-> <<"2">>, gender |-> NoneText,
      round |-> <<>>, swimstyle |-> FALSE, stroke |-> NoneText, distance |-> NoneText]}

HeatElems ==
    {[heatid |-> <<"2", "0">>, number |-> <<"1">>],
     [heatid |-> NoneText, number |-> <<"2">>]}

ImportInit ==
    /\ time_text = <<>>
    /\ time_src = [form |-> "none", h |-> 0, sep |-> <<>>, frac |-> <<>>]
    /\ parsed = [p \in Parsers |-> Pending]
    /\ lx_meet = {}
    /\ lx_session = {}
    /\ lx_event = {}
    /\ lx_heat = {}
    /\ lx_club = {}
    /\ lx_athlete = {}
    /\ lx_athleteclubaffiliation = {}
    /\ lx_result = {}
    /\ lx_split = {}
    /\ \E r \in FileRows : importedlenexfile = <<r, OtherFile>>
    /\ serial = SerialStart
    /\ committed = [EmptyTables EXCEPT !.importedlenexfile = importedlenexfile]
    /\ imp = [ImpIdle EXCEPT !.runs = MaxRuns - 1, !.used.sessions = MaxSessions - 1,
                             !.used.events = MaxEvents - 1,
                             !.used.heats = MaxHeats - 1]
    /\ scr = ScrIdle
    /\ resolved = {}

\* main(): the SELECT of the records to process.
MainSelect ==
    /\ imp.pc \in {"idle", "done"}
    /\ imp.runs < MaxRuns
    /\ imp' = [ImpIdle EXCEPT
                 !.pc = "loop",
                 !.runs = imp.runs + 1, !.used = imp.used,
                 !.todo = {k \in DOMAIN importedlenexfile :
                             /\ importedlenexfile[k].status \in {"downloaded", "backed_up"}
                             /\ importedlenexfile[k].filename # NoneText}]
    /\ UNCHANGED <<codecVars, scr, resolved, dbVars>>

\* main(): a selected record whose file is not on disk is passed over.
MainSkipMissing ==
    /\ imp.pc = "loop"
    /\ \E k \in imp.todo :
          /\ ~importedlenexfile[k].on_disk
          /\ imp' = [imp EXCEPT !.todo = @ \ {k}]
    /\ UNCHANGED <<codecVars, scr, resolved, dbVars>>

\* main(): import_lenex_file is called for the next record.
MainNext ==
    /\ imp.pc = "loop"
    /\ \E k \in imp.todo :
          /\ importedlenexfile[k].on_disk
          /\ imp' = [ImpIdle EXCEPT
                       !.pc = "check_id", !.runs = imp.runs, !.used = imp.used,
                       !.todo = imp.todo,
                       !.cur = k,
                       !.onlineeventid = importedlenexfile[k].onlineeventid,
                       !.before = Tables]
    /\ UNCHANGED <<codecVars, scr, resolved, dbVars>>

\* main(): every selected record was handled; the connection is closed.
MainDone ==
    /\ imp.pc = "loop"
    /\ imp.todo = {}
    /\ imp' = [imp EXCEPT !.pc = "done"]
    /\ UNCHANGED <<codecVars, scr, resolved, dbVars>>

\* import_lenex_file: the meet id must be present and an integer.
ImportCheckId ==
    /\ imp.pc = "check_id"
    /\ imp' = IF imp.onlineeventid = NoneText \/ PyInt(imp.onlineeventid).kind # "int"
              THEN [imp EXCEPT !.pc = "handler", !.outcome = "ValueError",
                               !.raised_at = "meet_id"]
              ELSE [imp EXCEPT !.pc = "parse",
                               !.meet_id = PyInt(imp.onlineeventid).val]
    /\ UNCHANGED <<codecVars, scr, resolved, dbVars>>

\* import_lenex_file: the file is not XML, or has no LENEX root, MEETS or
\* MEET element.
ImportBadStructure ==
    /\ imp.pc = "parse"
    /\ imp' = [imp EXCEPT !.pc = "handler", !.outcome = "False"]
    /\ UNCHANGED <<codecVars, scr, resolved, dbVars>>

\* import_lenex_file: the meet is upserted and committed.
ImportMeet ==
    /\ imp.pc = "parse"
    /\ \E meet_elem \in MeetElems :
          /\ lx_meet' = LenexUpsertMeet(lx_meet, imp.meet_id,
                                        Or(meet_elem.name, T_Unknown),
                                        Or(meet_elem.course, T_LCM))
          /\ imp' = [imp EXCEPT !.pc = "sessions", !.meet_elem = meet_elem]
    /\ UNCHANGED <<codecVars, scr, resolved, lx_session, lx_event, lx_heat, lx_club, lx_athlete,
                   lx_athleteclubaffiliation, lx_result, lx_split,
                   importedlenexfile, serial>>
    /\ committed' = TablesAfter

\* import_lenex_file: one SESSION element.
ImportSession ==
    /\ imp.pc \in {"sessions", "events", "heats"}
    /\ imp.used.sessions < MaxSessions
    /\ \E sess \in SessionElems :
          LET id == serial.lx_session IN
          /\ lx_session' = lx_session \cup
                {[id |-> id, meetid |-> imp.meet_id,
                  sessionnumber |-> IntIfDigits(sess.number),
                  sessiondate |-> Lenex_parse_date(sess.date)]}
          /\ serial' = [serial EXCEPT !.lx_session = id + 1]
          /\ imp' = [imp EXCEPT
                       !.pc = "events", !.session_id = id,
                       !.sessionid_to_lx_session = DictSet(@, sess.number, id),
                       !.used.sessions = @ + 1]
    /\ UNCHANGED <<codecVars, scr, resolved, lx_meet, lx_event, lx_heat, lx_club, lx_athlete,
                   lx_athleteclubaffiliation, lx_result, lx_split,
                   importedlenexfile, committed>>

\* import_lenex_file: one EVENT element of the current session.
ImportEvent ==
    /\ imp.pc \in {"events", "heats"}
    /\ imp.used.events < MaxEvents
    /\ \E ev \in EventElems :
          LET id == serial.lx_event
              ev_id == Or(ev.eventid, ev.number)
              stroke == IF ev.swimstyle THEN Upper(Or(ev.stroke, T_FREE)) ELSE T_FREE
              distance == IF ev.swimstyle /\ IntIfDigits(ev.distance).kind = "int"
                          THEN IntIfDigits(ev.distance).val ELSE 0
          IN
          /\ lx_event' = lx_event \cup
                {[id |-> id, meetid |-> imp.meet_id, stroke |-> stroke,
                  distance |-> distance, round |-> Or(ev.round, NoneText),
                  gender |-> Upper(Take(Or(ev.gender, T_X), 1))]}
          /\ serial' = [serial EXCEPT !.lx_event = id + 1]
          /\ imp' = [imp EXCEPT
                       !.pc = "heats", !.lx_event_id = id,
                       !.eventid_to_lx_event = DictSet(@, ev_id, id),
                       !.used.events = @ + 1]
    /\ UNCHANGED <<codecVars, scr, resolved, lx_meet, lx_session, lx_heat, lx_club, lx_athlete,
                   lx_athleteclubaffiliation, lx_result, lx_split,
                   importedlenexfile, committed>>

\* import_lenex_file: one HEAT element of the current event.
ImportHeat ==
    /\ imp.pc = "heats"
    /\ imp.used.heats < MaxHeats
    /\ \E heat \in HeatElems :
          LET id == serial.lx_heat
              heat_id == Or(heat.heatid, heat.number)
          IN
          /\ lx_heat' = lx_heat \cup
                {[id |-> id, eventid |-> imp.lx_event_id, sessionid |-> imp.session_id,
                  heatnumber |-> IntIfDigits(heat.number)]}
          /\ serial' = [serial EXCEPT !.lx_heat = id + 1]
          /\ imp' = [imp EXCEPT
                       !.heatid_to_lx_heat = DictSet(@, heat_id, id),
                       !.used.heats = @ + 1]
    /\ UNCHANGED <<codecVars, scr, resolved, lx_meet, lx_session, lx_event, lx_club, lx_athlete,
                   lx_athleteclubaffiliation, lx_result, lx_split,
                   importedlenexfile, committed>>

\* import_lenex_file: after the sessions, the meet's dates are taken from
\* them.
ImportMeetDates ==
    /\ imp.pc \in {"sessions", "events", "heats"}
    /\ lx_meet' = UpdateMeetDates(lx_meet, lx_session, imp.meet_id)
    /\ imp' = [imp EXCEPT !.pc = "clubs"]
    /\ UNCHANGED <<codecVars, scr, resolved, lx_session, lx_event, lx_heat, lx_club, lx_athlete,
                   lx_athleteclubaffiliation, lx_result, lx_split,
                   importedlenexfile, serial, committed>>

ClubElems ==
    {[code |-> <<"A">>, name |-> <<"A", "b">>, nation |-> <<"H", "U", "N", "G">>],
     [code |-> <<"A">>, name |-> <<"Z", "z">>, nation |-> NoneText],
     [code |-> NoneText, name |-> <<"B", "c">>, nation |-> NoneText],
     [code |-> NoneText, name |-> NoneText, nation |-> NoneText]}

AthleteElems ==
    {[athleteid |-> <<"1", "0", "0">>, firstname |-> <<"A", "n">>,
      lastname |-> <<"K">>, birthdate |-> D_2010, gender |-> <<"f">>],
     [athleteid |-> <<"1", "0", "0">>, firstname |-> <<"O", "t">>,
      lastname |-> <<"K">>, birthdate |-> NoneText, gender |-> <<"M">>],
     [athleteid |-> <<"1", "0", "0">>, firstname |-> NoneText,
      lastname |-> NoneText, birthdate |-> D_bad, gender |-> NoneText],
     [athleteid |-> NoneText, firstname |-> <<"A", "n">>,
      lastname |-> <<"K">>, birthdate |-> D_2010, gender |-> <<"f">>],
     [athleteid |-> <<"x", "1">>, firstname |-> <<"A", "n">>,
      lastname |-> <<"K">>, birthdate |-> D_2010, gender |-> <<"f">>]}

ResultElem(eventid, heatid, lane, swimtime, status, disqualified, place, reactiontime) ==
    [eventid |-> eventid, heatid |-> heatid, lane |-> lane, swimtime |-> swimtime,
     status |-> status, disqualified |-> disqualified, place |-> place,
     rank |-> NoneText, reactiontime |-> reactiontime]

T_10250 == <<"1", ":", "0", "2", ".", "5", "0">>

ResultElems ==
    {ResultElem(<<"1", "0">>, <<"2", "0">>, <<"4">>, T_10250, NoneText, NoneText,
                <<"1">>, <<"0", ".", "6", "5">>),
     ResultElem(<<"1", "0">>, <<"2", "0">>, <<"4">>, <<"D", "s", "q">>, NoneText,
                NoneText, NoneText, NoneText),
     ResultElem(<<"1", "0">>, <<"2", "0">>, NoneText, T_10250, NoneText,
                <<"D", "S", "Q">>, NoneText, NoneText),
     ResultElem(NoneText, <<"2", "0">>, <<"4">>, T_10250, NoneText, NoneText,
                NoneText, NoneText),
     ResultElem(<<"1", "0">>, <<"9", "9">>, <<"4">>, T_10250, NoneText, NoneText,
                NoneText, NoneText),
     ResultElem(<<"1", "0">>, <<"2", "0">>, <<"4">>, <<"D", "N", "S">>,
                <<"E", "X", "H">>, NoneText, <<"3">>, NoneText),
     ResultElem(<<"2">>, <<"2", "0">>, <<"4">>, T_10250, NoneText, NoneText,
                NoneText, NoneText),
     ResultElem(<<"1", "0">>, <<"2">>, <<"4">>, T_10250, NoneText, NoneText,
                NoneText, NoneText)}

SplitElems ==
    {[distance |-> <<"5", "0">>, swimtime |-> <<"3", "1", ".", "0">>],
     [distance |-> <<"5", "0">>, swimtime |-> <<"N", "T">>]}

\* import_lenex_file: one CLUB element; a club with neither code nor name
\* raises TypeError (None[:32]).
ImportClub ==
    /\ imp.pc \in {"clubs", "athletes", "results", "splits"}
    /\ imp.used.clubs < MaxClubs
    /\ \E club_elem \in ClubElems :
          IF Falsy(club_elem.code) /\ club_elem.name = NoneText
          THEN /\ imp' = [imp EXCEPT !.pc = "handler", !.outcome = "TypeError",
                                     !.raised_at = "club"]
               /\ UNCHANGED <<lx_club, serial, resolved>>
          ELSE LET club_code == Or(club_elem.code, Take(club_elem.name, 32))
                   club_name == Or(club_elem.name, club_code)
                   nation == Take(Or(club_elem.nation, <<>>), 3)
                   r == ResolveOrCreateClub(lx_club, serial.lx_club, club_code,
                                            club_name, Or(nation, NoneText))
               IN
               /\ lx_club' = r[1]
               /\ resolved' = resolved \cup {<<club_code, r[2]>>}
               /\ serial' = IF r[3] THEN [serial EXCEPT !.lx_club = @ + 1] ELSE serial
               /\ imp' = [imp EXCEPT
                            !.pc = "athletes", !.club_id = r[2],
                            !.club_code_to_id = DictSet(@, club_code, r[2]),
                            !.used.clubs = @ + 1]
    /\ UNCHANGED <<codecVars, scr, lx_meet, lx_session, lx_event, lx_heat, lx_athlete,
                   lx_athleteclubaffiliation, lx_result, lx_split,
                   importedlenexfile, committed>>

\* import_lenex_file: one ATHLETE element of the current club; an absent or
\* non-numeric athleteid raises ValueError.
ImportAthlete ==
    /\ imp.pc \in {"athletes", "results", "splits"}
    /\ imp.used.athletes < MaxAthletes
    /\ \E athlete_elem \in AthleteElems :
          LET ath_id == athlete_elem.athleteid
              birth == Lenex_parse_date(athlete_elem.birthdate)
              new == [id |-> PyInt(ath_id).val,
                      firstname |-> Or(athlete_elem.firstname, <<>>),
                      lastname |-> Or(athlete_elem.lastname, <<>>),
                      birthdate |-> birth,
                      gender |-> Upper(Take(Or(athlete_elem.gender, T_X), 1))]
              aff == InsertAffiliation(lx_athleteclubaffiliation,
                                       serial.lx_athleteclubaffiliation, new.id,
                                       imp.club_id, birth, imp.meet_id)
          IN
          IF Falsy(ath_id) \/ PyInt(ath_id).kind # "int"
          THEN /\ imp' = [imp EXCEPT !.pc = "handler", !.outcome = "ValueError",
                                     !.raised_at = "athlete"]
               /\ UNCHANGED <<lx_athlete, lx_athleteclubaffiliation, serial>>
          ELSE /\ lx_athlete' = UpsertAthlete(lx_athlete, new, LenexAthleteCols)
               /\ IF imp.club_id # 0 /\ imp.meet_id # 0
                  THEN /\ lx_athleteclubaffiliation' = aff[1]
                       /\ serial' = IF aff[2]
                                    THEN [serial EXCEPT !.lx_athleteclubaffiliation = @ + 1]
                                    ELSE serial
                  ELSE UNCHANGED <<lx_athleteclubaffiliation, serial>>
               /\ imp' = [imp EXCEPT !.pc = "results", !.athlete_id = new.id,
                                     !.used.athletes = @ + 1]
    /\ UNCHANGED <<codecVars, scr, resolved, lx_meet, lx_session, lx_event, lx_heat, lx_club,
                   lx_result, lx_split, importedlenexfile, committed>>

\* The status taken from the swimtime text whatever it is.
LenexResultStatus_AnySwimtime(res) ==
    Take(Or(res.status, Or(res.disqualified, Upper(res.swimtime))), 10)

\* The status taken from the status and disqualified attributes only.
LenexResultStatus_ExplicitOnly(res) ==
    Take(Or(res.status, Or(res.disqualified, <<>>)), 10)

\* The status column of a RESULT element.
LenexResultStatus(res) ==
    LET status == Take(Or(res.status, Or(res.disqualified, <<>>)), 10) IN
    IF Falsy(status) /\ ~Falsy(res.swimtime)
       /\ Upper(res.swimtime) \in {<<"D", "Q">>, <<"D", "S", "Q">>, <<"D", "N", "S">>, <<"S", "C", "R">>}
    THEN Take(Upper(res.swimtime), 10)
    ELSE status

\* Every RESULT taken as resolvable.
KeysResolve_Always(res, ev, ht) == TRUE

\* Both keys of the RESULT are present and found in the mappings (the two
\* `continue` tests).
KeysResolve(res, ev, ht) ==
    ~(Falsy(res.eventid) \/ Falsy(res.heatid)) /\ ~(ev = 0 \/ ht = 0)

\* import_lenex_file: one RESULT element of the current athlete; a result
\* whose event or heat key is absent or unknown is passed over.
ImportResult ==
    /\ imp.pc \in {"results", "splits"}
    /\ imp.used.results < MaxResults
    /\ \E res \in ResultElems :
          LET ev == DictGet(imp.eventid_to_lx_event, res.eventid)
              ht == DictGet(imp.heatid_to_lx_heat, res.heatid)
              id == serial.lx_result
              react == IF Falsy(res.reactiontime) THEN None
                       ELSE Lenex_parse_swimtime(res.reactiontime)
          IN
          IF ~KeysResolve(res, ev, ht)
          THEN /\ imp' = [imp EXCEPT !.pc = "results", !.res = res,
                                     !.used.results = @ + 1]
               /\ UNCHANGED <<lx_result, serial>>
          ELSE /\ lx_result' = lx_result \cup
                     {ResultRow(id, imp.athlete_id, ht, 0, None, imp.club_id,
                                IntIfDigits(res.lane),
                                Lenex_parse_swimtime(res.swimtime),
                                Or(LenexResultStatus(res), NoneText),
                                IntIfDigits(Or(res.place, res.rank)), react)}
               /\ serial' = [serial EXCEPT !.lx_result = id + 1]
               /\ imp' = [imp EXCEPT !.pc = "splits", !.res = res, !.lx_event_id = ev,
                                     !.result_id = id, !.used.results = @ + 1]
    /\ UNCHANGED <<codecVars, scr, resolved, lx_meet, lx_session, lx_event, lx_heat, lx_club,
                   lx_athlete, lx_athleteclubaffiliation, lx_split,
                   importedlenexfile, committed>>

\* import_lenex_file: one SPLIT element of the current result.
ImportSplit ==
    /\ imp.pc = "splits"
    /\ imp.used.splits < MaxSplits
    /\ \E sp \in SplitElems :
          LET dist == IntIfDigits(sp.distance)
              th == Lenex_parse_swimtime(sp.swimtime)
              id == serial.lx_split
          IN
          /\ IF dist.kind = "int" /\ th.kind = "int" /\ imp.result_id # 0
             THEN /\ lx_split' = lx_split \cup
                        {[id |-> id, resultid |-> imp.result_id,
                          distance |-> dist.val, timehundredths |-> th.val]}
                  /\ serial' = [serial EXCEPT !.lx_split = id + 1]
             ELSE UNCHANGED <<lx_split, serial>>
          /\ imp' = [imp EXCEPT !.used.splits = @ + 1]
    /\ UNCHANGED <<codecVars, scr, resolved, lx_meet, lx_session, lx_event, lx_heat, lx_club,
                   lx_athlete, lx_athleteclubaffiliation, lx_result,
                   importedlenexfile, committed>>

\* import_lenex_file: the document is read to its end; commit, return True.
ImportFinish ==
    /\ imp.pc \in {"clubs", "athletes", "results", "splits"}
    /\ committed' = Tables
    /\ imp' = [imp EXCEPT !.pc = "handler", !.outcome = "True"]
    /\ UNCHANGED <<codecVars, scr, resolved, tableVars, serial>>

\* main() writing 'processed' whatever import_lenex_file did.
StatusFor_AlwaysProcessed(outcome) == "processed"

\* The status main() writes for each way import_lenex_file can end.
StatusFor(outcome) == IF outcome = "True" THEN "processed" ELSE "processing_failed"

\* main(): the status UPDATE and commit that follow import_lenex_file,
\* returning or raising.
MainHandle ==
    /\ imp.pc = "handler"
    /\ importedlenexfile' = UpdateStatus(importedlenexfile, imp.onlineeventid,
                                         StatusFor(imp.outcome))
    /\ imp' = [imp EXCEPT !.pc = "loop", !.todo = @ \ {imp.cur}]
    /\ UNCHANGED <<codecVars, scr, resolved, lx_meet, lx_session, lx_event, lx_heat, lx_club,
                   lx_athlete, lx_athleteclubaffiliation, lx_result, lx_split,
                   serial>>
    /\ committed' = TablesAfter

ImportNext ==
    \/ MainSelect
    \/ MainSkipMissing
    \/ MainNext
    \/ MainDone
    \/ ImportCheckId
    \/ ImportBadStructure
    \/ ImportMeet
    \/ ImportSession
    \/ ImportEvent
    \/ ImportHeat
    \/ ImportMeetDates
    \/ ImportClub
    \/ ImportAthlete
    \/ ImportResult
    \/ ImportSplit
    \/ ImportFinish
    \/ MainHandle

SpecImport == ImportInit /\ [][ImportNext]_vars

(***************************************************************************)
(* The per-heat scraper: __main__ and scrape_and_import of                 *)
(* scrape_musz_result_pages.py.  Every page fetched is any page of the     *)
(* catalog of its kind; a table's rows are read one per step.              *)
(***************************************************************************)

MaxScrapeSessions == 2
MaxScrapeEvents == 2
MaxRows == 2
\* The runs of a scraper's __main__ a behaviour can hold.
MaxScrapeRuns == 2

\* What the eventdata page gives for the meet.
MeetPages ==
    {[name |-> T_Unknown, startdate |-> NullDate, enddate |-> NullDate, course |-> T_LCM],
     [name |-> <<"S">>, startdate |-> 20240501, enddate |-> 20240502, course |-> T_SCM]}

\* The EventId values a session's page can offer.
EventIds == {1, 2}

\* The HeatId options an event's page can list, in page order.
HeatIdLists == {<<>>, <<5>>, <<5, 5>>, <<0, 5>>, <<5, 0>>}

\* What _parse_event_title makes of the title the program page gives for
\* an event: event 1 is a women's 50 m backstroke, the others have a title
\* that names no stroke, distance or gender.
ParsedTitle(event_id) ==
    IF event_id = 1
    THEN [stroke |-> <<"B", "A", "C", "K">>, distance |-> 50, gender |-> <<"F">>]
    ELSE [stroke |-> T_FREE, distance |-> 0, gender |-> T_X]

\* session_dates.get(session_id): the program page dates session 1 only.
SessionDateOf(session_id) == IF session_id = 1 THEN 20240501 ELSE NullDate

\* The cells of a result row: the athlete link parsed by
\* _parse_athlete_from_link (umk 0: no link or no UMK), the time cell, the
\* rank cell, the lane cell, and the splits found with the row.
PageRow(umk, firstname, lastname, club_name, birth_year, rank_s, time_raw, ln_s, splits) ==
    [umk |-> umk, firstname |-> firstname, lastname |-> lastname,
     club_name |-> club_name, birth_year |-> birth_year, rank_s |-> rank_s,
     time_raw |-> time_raw, ln_s |-> ln_s, splits |-> splits]

PageRows ==
    {PageRow(100, <<"A", "n">>, <<"K">>, <<"A">>, 2010, <<"1">>, T_10250, <<"4">>,
             {<<50, 3100>>}),
     PageRow(100, <<"A", "n">>, <<"K">>, <<"A">>, 2010, <<"2">>,
             <<"1", ":", "0", "3", ".", "0", "0", " ", "N", "T">>, <<"4">>, {}),
     PageRow(101, <<"B", "e">>, <<"L">>, <<>>, 0, <<>>, <<"D", "N", "S">>, <<"-">>, {}),
     PageRow(100, <<"A", "n">>, <<"K">>, <<"A">>, 2010, <<>>, <<>>, <<>>, {}),
     PageRow(101, <<"B", "e">>, <<"L">>, <<"A">>, 0, <<"3">>,
             <<"1", ":", "0", "5", ".", "0", "0">>, <<"1", "-", "2">>, {}),
     PageRow(0, <<>>, <<>>, <<>>, 0, <<"4">>, T_10250, <<"5">>, {}),
     PageRow(101, <<"B", "e">>, <<"L">>, <<"A">>, 0, <<"3">>, <<"D", "S", "Q">>,
             <<"2">>, {})}

\* The birth year _fetch_swimmer_birthyear finds on the swimmer's page, 0
\* for none.
FetchedBirthYears == {0, 2009}

T_UNK == <<"U", "N", "K">>
T_HUN == <<"H", "U", "N">>
T_TIM == <<"T", "I", "M">>

\* A SELECT that leaves out the status test.
EventsWithoutLenex_AnyStatus(files) ==
    {k \in DOMAIN files : files[k].filename = NoneText}

\* _get_events_without_lenex
EventsWithoutLenex(files) ==
    {k \in DOMAIN files : files[k].filename = NoneText /\ files[k].status = "lenex_not_found"}

\* The records a scrape run starts from: a meet imported from its file and
\* a meet that has no file.
ScrapeFiles ==
    <<FileRow(<<"7">>, <<"a">>, "processed", TRUE),
      FileRow(<<"8">>, NoneText, "lenex_not_found", FALSE)>>

ScrapeInit ==
    /\ time_text = <<>>
    /\ time_src = [form |-> "none", h |-> 0, sep |-> <<>>, frac |-> <<>>]
    /\ parsed = [p \in Parsers |-> Pending]
    /\ lx_meet = {}
    /\ lx_session = {}
    /\ lx_event = {}
    /\ lx_heat = {}
    /\ lx_club = {}
    /\ lx_athlete = {}
    /\ lx_athleteclubaffiliation = {}
    /\ lx_result = {}
    /\ lx_split = {}
    /\ importedlenexfile = ScrapeFiles
    /\ serial = SerialStart
    /\ committed = [EmptyTables EXCEPT !.importedlenexfile = importedlenexfile]
    /\ imp = ImpIdle
    /\ scr = [ScrIdle EXCEPT !.runs = MaxScrapeRuns - 1]
    /\ resolved = {}

\* conn.close() with work not committed: the tables are as of the last
\* commit (the id sequences are not).
Rollback ==
    /\ lx_meet' = committed.lx_meet
    /\ lx_session' = committed.lx_session
    /\ lx_event' = committed.lx_event
    /\ lx_heat' = committed.lx_heat
    /\ lx_club' = committed.lx_club
    /\ lx_athlete' = committed.lx_athlete
    /\ lx_athleteclubaffiliation' = committed.lx_athleteclubaffiliation
    /\ lx_result' = committed.lx_result
    /\ lx_split' = committed.lx_split
    /\ importedlenexfile' = committed.importedlenexfile
    /\ UNCHANGED <<serial, committed>>

\* __main__: the records with no LENEX file are selected.
PagesSelect ==
    /\ scr.pc \in {"idle", "done"}
    /\ scr.runs < MaxScrapeRuns
    /\ scr' = [ScrIdle EXCEPT !.adapter = "result_pages", !.pc = "loop",
                              !.runs = scr.runs + 1, !.used = scr.used,
                              !.todo = EventsWithoutLenex(importedlenexfile)]
    /\ UNCHANGED <<codecVars, dbVars, imp, resolved>>

\* The least key of a set of records' keys (ORDER BY onlineeventid; the ids
\* of the model's records are in key order).
MinOf(ks) == CHOOSE k \in ks : \A j \in ks : k <= j

MaxOf(ks) == CHOOSE k \in ks : \A j \in ks : k >= j

\* __main__: scrape_and_import is called for the next record.
PagesStart ==
    /\ scr.adapter = "result_pages" /\ scr.pc = "loop"
    /\ scr.todo # {}
    /\ LET k == MinOf(scr.todo) IN
       scr' = [ScrIdle EXCEPT
                 !.adapter = "result_pages", !.pc = "eventdata", !.runs = scr.runs,
                 !.used = scr.used, !.todo = scr.todo, !.cur = k,
                 !.meet_id = PyInt(importedlenexfile[k].onlineeventid).val]
    /\ UNCHANGED <<codecVars, dbVars, imp, resolved>>

\* scrape_and_import: the eventdata or the program page is not served; the
\* function returns.
PagesNoPage ==
    /\ scr.adapter = "result_pages" /\ scr.pc \in {"eventdata", "program"}
    /\ scr' = [scr EXCEPT !.pc = "finally", !.outcome = "return"]
    /\ UNCHANGED <<codecVars, dbVars, imp, resolved>>

\* scrape_and_import: the meet is upserted from the eventdata page and
\* committed.
PagesMeet ==
    /\ scr.adapter = "result_pages" /\ scr.pc = "eventdata"
    /\ \E page \in MeetPages : lx_meet' = ScrapeUpsertMeet(lx_meet, scr.meet_id, page)
    /\ scr' = [scr EXCEPT !.pc = "program"]
    /\ UNCHANGED <<codecVars, lx_session, lx_event, lx_heat, lx_club, lx_athlete,
                   lx_athleteclubaffiliation, lx_result, lx_split,
                   importedlenexfile, serial, imp, resolved>>
    /\ committed' = TablesAfter

\* scrape_and_import: the program page is read; discovery starts at session
\* 1, event 1.
PagesProgram ==
    /\ scr.adapter = "result_pages" /\ scr.pc = "program"
    /\ scr' = [scr EXCEPT !.pc = "discover", !.session_id = 1, !.next_event_id = 1]
    /\ UNCHANGED <<codecVars, dbVars, imp, resolved>>

\* What a page fetch gives: a page, or a failure (an exception or a
\* response that is not OK).
Fetches == {"ok", "failed"}

\* scrape_and_import: the session's page is not served, or lists heats but
\* no events: discovery ends.
PagesDiscoverStop ==
    /\ scr.adapter = "result_pages" /\ scr.pc = "discover"
    /\ \E fetch \in Fetches :
          scr' = [scr EXCEPT !.pc = "finally", !.outcome = "done", !.fetch = fetch,
                             !.probed = Append(@, scr.session_id)]
    /\ UNCHANGED <<codecVars, dbVars, imp, resolved>>

\* What the page of session n+1 shows when it is fetched because session n
\* lists no heats: it is not served, its heat selector is empty, or it
\* lists heats.
NextSessionProbes == {"unserved", "empty", "heats"}

\* A while loop that is never left after a session without heats.
TraversalEnds_Never(next_probe) == FALSE

\* The while loop after a session without heats: the break for a next
\* session that has no heats either is followed by a break that is not
\* under any condition, so the loop is left whatever the next page shows.
TraversalEnds(next_probe) == next_probe = "empty" \/ TRUE

\* scrape_and_import: the session's page has an empty heat selector; the
\* page of the next session is fetched.
PagesNoHeats ==
    /\ scr.adapter = "result_pages" /\ scr.pc = "discover"
    /\ \E next_probe \in NextSessionProbes :
          scr' = IF TraversalEnds(next_probe)
                 THEN [scr EXCEPT !.pc = "finally", !.outcome = "done",
                                  !.next_probe = next_probe, !.fetch = "ok",
                                  !.probed = @ \o <<scr.session_id, scr.session_id + 1>>]
                 ELSE [scr EXCEPT !.next_probe = next_probe, !.fetch = "ok",
                                  !.session_id = @ + 1,
                                  !.next_event_id = @ + 1,
                                  !.probed = @ \o <<scr.session_id, scr.session_id + 1>>]
    /\ UNCHANGED <<codecVars, dbVars, imp, resolved>>

\* scrape_and_import: the session's page lists heats and events; the session
\* row is inserted and committed.
PagesSession ==
    /\ scr.adapter = "result_pages" /\ scr.pc = "discover"
    /\ scr.used.sessions < MaxScrapeSessions
    /\ \E event_options \in SUBSET EventIds :
          /\ event_options # {}
          /\ Cardinality(event_options) <= MaxScrapeEvents - scr.used.events
          /\ LET id == serial.lx_session
                    known == scr.session_id \in DOMAIN scr.session_ids
                    sessiondate == SessionDateOf(scr.session_id)
                IN
                /\ lx_session' = IF known THEN lx_session
                                 ELSE lx_session \cup
                                      {[id |-> id, meetid |-> scr.meet_id,
                                        sessionnumber |-> Some(scr.session_id),
                                        sessiondate |-> sessiondate]}
                /\ serial' = IF known THEN serial ELSE [serial EXCEPT !.lx_session = id + 1]
                /\ scr' = [scr EXCEPT
                             !.pc = "events", !.event_options = event_options,
                             !.max_event = MaxOf(event_options), !.fetch = "ok",
                             !.session_ids = IF known THEN @ ELSE DictSet(@, scr.session_id, id),
                             !.probed = Append(@, scr.session_id),
                             !.used.sessions = @ + 1]
    /\ UNCHANGED <<codecVars, lx_meet, lx_event, lx_heat, lx_club, lx_athlete,
                   lx_athleteclubaffiliation, lx_result, lx_split,
                   importedlenexfile, imp, resolved>>
    /\ committed' = TablesAfter

\* The event loop is between two events: at its start, or past the last
\* heat of the current event.
PagesBetweenEvents ==
    \/ scr.pc = "events"
    \/ scr.pc \in {"heats", "rows"} /\ scr.heat_pos = Len(scr.heat_ids)

\* scrape_and_import: the next event of the session: its row is inserted
\* and its page fetched for the heat list.
PagesEvent ==
    /\ scr.adapter = "result_pages" /\ PagesBetweenEvents
    /\ scr.event_options # {}
    /\ LET event_id == MinOf(scr.event_options)
           id == serial.lx_event
       IN
       IF <<scr.session_id, event_id>> \in scr.seen_events
       THEN /\ scr' = [scr EXCEPT !.pc = "events", !.event_options = @ \ {event_id},
                                  !.fetch = "none"]
            /\ UNCHANGED <<lx_event, serial>>
       ELSE /\ lx_event' = lx_event \cup
                    {[id |-> id, meetid |-> scr.meet_id,
                      stroke |-> ParsedTitle(event_id).stroke,
                      distance |-> ParsedTitle(event_id).distance,
                      round |-> T_TIM, gender |-> ParsedTitle(event_id).gender]}
            /\ serial' = [serial EXCEPT !.lx_event = id + 1]
            /\ \/ scr' = [scr EXCEPT
                            !.pc = "events", !.event_options = @ \ {event_id},
                            !.fetch = "failed",
                            !.event_id = event_id, !.lx_event_id = id,
                            !.seen_events = @ \cup {<<scr.session_id, event_id>>},
                            !.used.events = @ + 1]
               \/ \E heat_ids \in HeatIdLists :
                     scr' = [scr EXCEPT
                               !.pc = "heats", !.event_options = @ \ {event_id},
                               !.fetch = "ok",
                               !.event_id = event_id, !.lx_event_id = id,
                               !.seen_events = @ \cup {<<scr.session_id, event_id>>},
                               !.heat_ids = heat_ids, !.heat_pos = 0,
                               !.used.events = @ + 1]
    /\ UNCHANGED <<codecVars, lx_meet, lx_session, lx_heat, lx_club, lx_athlete,
                   lx_athleteclubaffiliation, lx_result, lx_split,
                   importedlenexfile, committed, imp, resolved>>

\* heat_ids.index(heat_id) + 1 if heat_id else 1
HeatNumber(heat_ids, heat_id) ==
    IF heat_id # 0 THEN IndexOf(heat_ids, heat_id) ELSE 1

\* scrape_and_import: the next heat of the event: its number is its
\* position in the heat list, and its page is fetched for the result table.
PagesHeat ==
    /\ scr.adapter = "result_pages" /\ scr.pc \in {"heats", "rows"}
    /\ scr.heat_pos < Len(scr.heat_ids)
    /\ LET heat_id == scr.heat_ids[scr.heat_pos + 1]
           heatnumber == HeatNumber(scr.heat_ids, heat_id)
       IN
       \/ scr' = [scr EXCEPT !.pc = "heats", !.heat_pos = @ + 1, !.heatnumber = heatnumber,
                             !.fetch = "failed"]
       \/ \E ln_col \in BOOLEAN :
             scr' = [scr EXCEPT !.pc = "rows", !.heat_pos = @ + 1, !.fetch = "ok",
                                !.heatnumber = heatnumber, !.ln_col = ln_col]
    /\ UNCHANGED <<codecVars, dbVars, imp, resolved>>

\* scrape_and_import: one row of the heat's result table.
PagesRow ==
    /\ scr.adapter = "result_pages" /\ scr.pc = "rows"
    /\ scr.used.rows < MaxRows
    /\ \E row \in PageRows : \E fetched \in FetchedBirthYears :
          LET rank == IntIfDigits(row.rank_s)
              time_hund == PagesRowTime(row.time_raw)
              status == PagesStatus(row.time_raw)
              lane == PagesLane(scr.ln_col, row.ln_s)
              key == <<scr.lx_event_id, scr.heatnumber, row.umk>>
              club_code == Or(Take(Or(row.club_name, <<>>), 32), T_UNK)
              club == ResolveOrCreateClub(lx_club, serial.lx_club, club_code,
                                          Or(row.club_name, club_code), T_HUN)
              known == \E a \in lx_athlete : a.id = row.umk
              birth_year == IF row.birth_year # 0 THEN row.birth_year ELSE fetched
              new == [id |-> row.umk, firstname |-> row.firstname,
                      lastname |-> row.lastname,
                      birthdate |-> IF birth_year # 0 THEN JanFirst(birth_year) ELSE NullDate,
                      gender |-> T_X]
              result_id == serial.lx_result
              nsplit == Cardinality(row.splits)
              cell == [time_raw |-> row.time_raw, rank_s |-> row.rank_s,
                       birth_year |-> row.birth_year]
          IN
          IF row.umk = 0
          THEN /\ fetched = 0
               /\ scr' = [scr EXCEPT !.used.rows = @ + 1, !.umk = 0]
               /\ UNCHANGED <<lx_club, lx_athlete, lx_result, lx_split, serial, resolved>>
          ELSE IF lane.kind \notin {"int", "None"}
          THEN /\ fetched = 0
               /\ scr' = [scr EXCEPT !.pc = "except", !.outcome = lane.kind,
                                     !.used.rows = @ + 1, !.umk = row.umk]
               /\ UNCHANGED <<lx_club, lx_athlete, lx_result, lx_split, serial, resolved>>
          ELSE IF AlreadySeen(key, scr.seen_heat_athlete)
          THEN /\ fetched = 0
               /\ scr' = [scr EXCEPT !.used.rows = @ + 1, !.umk = row.umk,
                                     !.dup_skips = @ + 1]
               /\ UNCHANGED <<lx_club, lx_athlete, lx_result, lx_split, serial, resolved>>
          ELSE IF time_hund.kind = "None" /\ status = NoneText
          THEN /\ fetched = 0
               /\ scr' = [scr EXCEPT !.used.rows = @ + 1, !.umk = row.umk]
               /\ UNCHANGED <<lx_club, lx_athlete, lx_result, lx_split, serial, resolved>>
          ELSE /\ (known \/ row.birth_year # 0) => fetched = 0
               /\ scr' = [scr EXCEPT !.used.rows = @ + 1, !.umk = row.umk,
                                     !.cell = cell,
                                     !.seen_heat_athlete = @ \cup {key}]
               /\ lx_club' = club[1]
               /\ resolved' = resolved \cup {<<club_code, club[2]>>}
               /\ lx_athlete' = IF known THEN lx_athlete
                                ELSE UpsertAthlete(lx_athlete, new,
                                                   {"firstname", "lastname", "birthdate"})
               /\ lx_result' = lx_result \cup
                     {ResultRow(result_id, row.umk, 0, scr.lx_event_id,
                                Some(scr.heatnumber), club[2], lane, time_hund,
                                status, rank, None)}
               /\ lx_split' = lx_split \cup
                     {[id |-> serial.lx_split, resultid |-> result_id,
                       distance |-> sp[1], timehundredths |-> sp[2]] : sp \in row.splits}
               /\ serial' = [serial EXCEPT
                               !.lx_club = IF club[3] THEN @ + 1 ELSE @,
                               !.lx_result = @ + 1,
                               !.lx_split = @ + nsplit]
    /\ UNCHANGED <<codecVars, lx_meet, lx_session, lx_event, lx_heat,
                   lx_athleteclubaffiliation, importedlenexfile, committed, imp>>

\* A session counter that stays where it is.
NextSessionId_Same(session_id) == session_id

\* session_id += 1
NextSessionId(session_id) == session_id + 1

\* scrape_and_import: the session's events are done; the next session is
\* probed after the commit.
PagesEndSession ==
    /\ scr.adapter = "result_pages" /\ PagesBetweenEvents
    /\ scr.event_options = {}
    /\ scr' = [scr EXCEPT !.pc = "discover", !.next_event_id = scr.max_event + 1,
                          !.session_id = NextSessionId(@), !.fetch = "none"]
    /\ committed' = Tables
    /\ UNCHANGED <<codecVars, tableVars, serial, imp, resolved>>

\* scrape_and_import: an exception reaches the function's handler, which
\* prints it; the connection is then closed.
PagesExcept ==
    /\ scr.adapter = "result_pages" /\ scr.pc = "except"
    /\ scr' = [scr EXCEPT !.pc = "finally"]
    /\ UNCHANGED <<codecVars, dbVars, imp, resolved>>

\* scrape_and_import: the finally clause closes the cursor and the
\* connection.
PagesFinally ==
    /\ scr.adapter = "result_pages" /\ scr.pc = "finally"
    /\ Rollback
    /\ scr' = [scr EXCEPT !.pc = "returned"]
    /\ UNCHANGED <<codecVars, imp, resolved>>

\* __main__: after scrape_and_import, whose locals are gone, the record is
\* marked 'scraped'.
PagesMark ==
    /\ scr.adapter = "result_pages" /\ scr.pc = "returned"
    /\ importedlenexfile' =
          UpdateStatus(importedlenexfile, importedlenexfile[scr.cur].onlineeventid, "scraped")
    /\ scr' = [ScrIdle EXCEPT !.adapter = scr.adapter, !.pc = "loop",
                              !.runs = scr.runs, !.used = scr.used,
                              !.cur = scr.cur, !.todo = scr.todo \ {scr.cur}]
    /\ UNCHANGED <<codecVars, lx_meet, lx_session, lx_event, lx_heat, lx_club,
                   lx_athlete, lx_athleteclubaffiliation, lx_result, lx_split,
                   serial, imp, resolved>>
    /\ committed' = TablesAfter

\* __main__: every selected record was scraped.
PagesDone ==
    /\ scr.adapter = "result_pages" /\ scr.pc = "loop"
    /\ scr.todo = {}
    /\ scr' = [scr EXCEPT !.pc = "done"]
    /\ UNCHANGED <<codecVars, dbVars, imp, resolved>>

PagesNext ==
    \/ PagesSelect
    \/ PagesStart
    \/ PagesNoPage
    \/ PagesMeet
    \/ PagesProgram
    \/ PagesDiscoverStop
    \/ PagesNoHeats
    \/ PagesSession
    \/ PagesEvent
    \/ PagesHeat
    \/ PagesRow
    \/ PagesEndSession
    \/ PagesExcept
    \/ PagesFinally
    \/ PagesMark
    \/ PagesDone

(***************************************************************************)
(* The summary scraper: __main__ and scrape_and_import of                  *)
(* scrape_musz_results.py.                                                 *)
(***************************************************************************)

\* The (SessionId, EventId) pairs the program page links, duplicates
\* dropped, in page order.
UniqueEventLists ==
    {<<>>, <<<<1, 1>>>>, <<<<1, 1>>, <<1, 2>>>>, <<<<3, 1>>, <<4, 2>>>>}

\* The cells of a summary row: the athlete link, the rank and time cells,
\* and the heat and lane of the H/L cell (heat 0: none found).
SummaryRow(umk, firstname, lastname, club_name, birth_year, rank_s, time_raw, heat, lane) ==
    [umk |-> umk, firstname |-> firstname, lastname |-> lastname,
     club_name |-> club_name, birth_year |-> birth_year, rank_s |-> rank_s,
     time_raw |-> time_raw, heat |-> heat, lane |-> lane]

SummaryRows ==
    {SummaryRow(100, <<"A", "n">>, <<"K">>, <<"A">>, 2010, <<"1">>, T_10250, 1, Some(4)),
     SummaryRow(100, <<"A", "n">>, <<"K">>, <<"A">>, 2010, <<"2">>,
                <<"1", ":", "0", "3", ".", "0", "0">>, 0, None),
     SummaryRow(101, <<"B", "e">>, <<"L">>, <<>>, 0, <<>>, <<"D", "N", "S">>, 2, Some(1)),
     SummaryRow(0, <<>>, <<>>, <<>>, 0, <<"4">>, T_10250, 1, Some(5))}

\* __main__: the records with no LENEX file are selected.
ResSelect ==
    /\ scr.pc \in {"idle", "done"}
    /\ scr.runs < MaxScrapeRuns
    /\ scr' = [ScrIdle EXCEPT !.adapter = "results", !.pc = "loop",
                              !.runs = scr.runs + 1, !.used = scr.used,
                              !.todo = EventsWithoutLenex(importedlenexfile)]
    /\ UNCHANGED <<codecVars, dbVars, imp, resolved>>

\* __main__: scrape_and_import is called for the next record.
ResStart ==
    /\ scr.adapter = "results" /\ scr.pc = "loop"
    /\ scr.todo # {}
    /\ LET k == MinOf(scr.todo) IN
       scr' = [ScrIdle EXCEPT
                 !.adapter = "results", !.pc = "eventdata", !.runs = scr.runs,
                 !.used = scr.used, !.todo = scr.todo, !.cur = k,
                 !.meet_id = PyInt(importedlenexfile[k].onlineeventid).val]
    /\ UNCHANGED <<codecVars, dbVars, imp, resolved>>

\* scrape_and_import: a page is not served and raise_for_status raises; the
\* exception leaves the function with its connection's work uncommitted.
ResRaise ==
    /\ scr.adapter = "results" /\ scr.pc \in {"eventdata", "program", "events"}
    /\ scr.pc = "events" =>
          /\ scr.heat_pos < Len(scr.heat_ids)
          /\ DictGet(scr.session_ids, scr.heat_ids[scr.heat_pos + 1][1]) # 0
    /\ Rollback
    /\ scr' = [scr EXCEPT !.pc = "raised", !.outcome = "HTTPError", !.fetch = "failed"]
    /\ UNCHANGED <<codecVars, imp, resolved>>

\* scrape_and_import: the meet is upserted from the eventdata page and
\* committed.
ResMeet ==
    /\ scr.adapter = "results" /\ scr.pc = "eventdata"
    /\ \E page \in MeetPages : lx_meet' = ScrapeUpsertMeet(lx_meet, scr.meet_id, page)
    /\ scr' = [scr EXCEPT !.pc = "program"]
    /\ UNCHANGED <<codecVars, lx_session, lx_event, lx_heat, lx_club, lx_athlete,
                   lx_athleteclubaffiliation, lx_result, lx_split,
                   importedlenexfile, serial, imp, resolved>>
    /\ committed' = TablesAfter

\* The SessionId values of a list of events, in order of first appearance.
RECURSIVE SessionsOf(_)
SessionsOf(events) ==
    IF events = <<>> THEN <<>>
    ELSE LET rest == SessionsOf(SubSeq(events, 1, Len(events) - 1))
             sid == events[Len(events)][1]
         IN  IF \E i \in 1..Len(rest) : rest[i] = sid THEN rest ELSE Append(rest, sid)

\* scrape_and_import: the program page is read and one session row is
\* inserted per SessionId, numbered in order of appearance, and committed.
ResProgram ==
    /\ scr.adapter = "results" /\ scr.pc = "program"
    /\ \E unique_events \in UniqueEventLists :
          LET sids == SessionsOf(unique_events)
              base == serial.lx_session
          IN
          /\ lx_session' = lx_session \cup
                {[id |-> base + i - 1, meetid |-> scr.meet_id,
                  sessionnumber |-> Some(i),
                  sessiondate |-> SessionDateOf(sids[i])] : i \in 1..Len(sids)}
          /\ serial' = [serial EXCEPT !.lx_session = base + Len(sids)]
          /\ scr' = [scr EXCEPT
                       !.pc = "events", !.heat_ids = unique_events, !.heat_pos = 0,
                       !.session_ids = [s \in {sids[i] : i \in 1..Len(sids)} |->
                                           base + IndexOf(sids, s) - 1]]
    /\ UNCHANGED <<codecVars, lx_meet, lx_event, lx_heat, lx_club, lx_athlete,
                   lx_athleteclubaffiliation, lx_result, lx_split,
                   importedlenexfile, imp, resolved>>
    /\ committed' = TablesAfter

\* scrape_and_import: the next event: its row is inserted, its summary
\* pages are fetched and the set of seen rows starts empty.
ResEvent ==
    /\ scr.adapter = "results" /\ scr.pc = "events"
    /\ scr.heat_pos < Len(scr.heat_ids)
    /\ LET ev == scr.heat_ids[scr.heat_pos + 1]
           id == serial.lx_event
       IN
       IF DictGet(scr.session_ids, ev[1]) = 0
       THEN /\ scr' = [scr EXCEPT !.heat_pos = @ + 1]
            /\ UNCHANGED <<lx_event, serial>>
       ELSE /\ lx_event' = lx_event \cup
                  {[id |-> id, meetid |-> scr.meet_id,
                    stroke |-> ParsedTitle(ev[2]).stroke,
                    distance |-> ParsedTitle(ev[2]).distance,
                    round |-> T_TIM, gender |-> ParsedTitle(ev[2]).gender]}
            /\ serial' = [serial EXCEPT !.lx_event = id + 1]
            /\ scr' = [scr EXCEPT !.pc = "rows", !.heat_pos = @ + 1,
                                  !.session_id = ev[1], !.event_id = ev[2],
                                  !.lx_event_id = id, !.seen_heat_athlete = {},
                                  !.used.events = @ + 1]
    /\ UNCHANGED <<codecVars, lx_meet, lx_session, lx_heat, lx_club, lx_athlete,
                   lx_athleteclubaffiliation, lx_result, lx_split,
                   importedlenexfile, committed, imp, resolved>>

\* scrape_and_import: one row of a category's summary table.
ResRow ==
    /\ scr.adapter = "results" /\ scr.pc = "rows"
    /\ scr.used.rows < MaxRows
    /\ \E row \in SummaryRows : \E fetched \in FetchedBirthYears :
          LET rank == IntIfDigits(row.rank_s)
              time_hund == Results_parse_swimtime(FirstWord(row.time_raw))
              heatnumber == IF row.heat = 0 THEN 1 ELSE row.heat
              key == <<scr.lx_event_id, heatnumber, row.umk>>
              club_code == Or(Take(Or(row.club_name, <<>>), 32), T_UNK)
              club == ResolveOrCreateClub(lx_club, serial.lx_club, club_code,
                                          Or(row.club_name, club_code), T_HUN)
              known == \E a \in lx_athlete : a.id = row.umk
              birth_year == IF row.birth_year # 0 THEN row.birth_year ELSE fetched
              new == [id |-> row.umk, firstname |-> row.firstname,
                      lastname |-> row.lastname,
                      birthdate |-> IF birth_year # 0 THEN JanFirst(birth_year) ELSE NullDate,
                      gender |-> T_X]
          IN
          IF row.umk = 0
          THEN /\ fetched = 0
               /\ scr' = [scr EXCEPT !.used.rows = @ + 1, !.umk = 0]
               /\ UNCHANGED <<lx_club, lx_athlete, lx_result, serial, resolved>>
          ELSE IF AlreadySeen(key, scr.seen_heat_athlete)
          THEN /\ fetched = 0
               /\ scr' = [scr EXCEPT !.used.rows = @ + 1, !.umk = row.umk,
                                     !.heatnumber = heatnumber, !.dup_skips = @ + 1]
               /\ UNCHANGED <<lx_club, lx_athlete, lx_result, serial, resolved>>
          ELSE /\ (known \/ row.birth_year # 0) => fetched = 0
               /\ scr' = [scr EXCEPT !.used.rows = @ + 1, !.umk = row.umk,
                                     !.heatnumber = heatnumber,
                                     !.seen_heat_athlete = @ \cup {key}]
               /\ lx_club' = club[1]
               /\ resolved' = resolved \cup {<<club_code, club[2]>>}
               /\ lx_athlete' = IF known THEN lx_athlete
                                ELSE UpsertAthlete(lx_athlete, new,
                                                   {"firstname", "lastname", "birthdate"})
               /\ lx_result' = lx_result \cup
                     {ResultRow(serial.lx_result, row.umk, 0, scr.lx_event_id,
                                Some(heatnumber), club[2], row.lane, time_hund,
                                NoneText, rank, None)}
               /\ serial' = [serial EXCEPT
                               !.lx_club = IF club[3] THEN @ + 1 ELSE @,
                               !.lx_result = @ + 1]
    /\ UNCHANGED <<codecVars, lx_meet, lx_session, lx_event, lx_heat,
                   lx_athleteclubaffiliation, lx_split, importedlenexfile,
                   committed, imp>>

\* scrape_and_import: the event's tables are read; its rows are committed.
ResCommit ==
    /\ scr.adapter = "results" /\ scr.pc = "rows"
    /\ scr' = [scr EXCEPT !.pc = "events"]
    /\ committed' = Tables
    /\ UNCHANGED <<codecVars, tableVars, serial, imp, resolved>>

\* scrape_and_import: every event is done; the connection is closed and
\* True returned.
ResFinish ==
    /\ scr.adapter = "results" /\ scr.pc = "events"
    /\ scr.heat_pos = Len(scr.heat_ids)
    /\ Rollback
    /\ scr' = [scr EXCEPT !.pc = "returned", !.outcome = "True"]
    /\ UNCHANGED <<codecVars, imp, resolved>>

\* The status __main__ writes after scrape_and_import returned True, or
\* raised.
ResStatusFor(pc) == IF pc = "returned" THEN "scraped" ELSE "scrape_failed"

\* __main__: the record is marked; the loop over the records ends at the
\* first one scraped.
ResMark ==
    /\ scr.adapter = "results" /\ scr.pc \in {"returned", "raised"}
    /\ importedlenexfile' =
          UpdateStatus(importedlenexfile, importedlenexfile[scr.cur].onlineeventid,
                       ResStatusFor(scr.pc))
    /\ scr' = [ScrIdle EXCEPT !.adapter = scr.adapter,
                              !.pc = IF scr.pc = "returned" THEN "done" ELSE "loop",
                              !.runs = scr.runs, !.used = scr.used,
                              !.cur = scr.cur, !.todo = scr.todo \ {scr.cur}]
    /\ UNCHANGED <<codecVars, lx_meet, lx_session, lx_event, lx_heat, lx_club,
                   lx_athlete, lx_athleteclubaffiliation, lx_result, lx_split,
                   serial, imp, resolved>>
    /\ committed' = TablesAfter

\* __main__: no record is left.
ResDone ==
    /\ scr.adapter = "results" /\ scr.pc = "loop"
    /\ scr.todo = {}
    /\ scr' = [scr EXCEPT !.pc = "done"]
    /\ UNCHANGED <<codecVars, dbVars, imp, resolved>>

ResNext ==
    \/ ResSelect
    \/ ResStart
    \/ ResRaise
    \/ ResMeet
    \/ ResProgram
    \/ ResEvent
    \/ ResRow
    \/ ResCommit
    \/ ResFinish
    \/ ResMark
    \/ ResDone

ScrapeNext == PagesNext \/ ResNext

SpecScrape == ScrapeInit /\ [][ScrapeNext]_vars

(***************************************************************************)
(* Both adapters on one database, one run after the other: the per-heat    *)
(* scraper for the meet without a file and the structured import of a      *)
(* document that holds clubs only.  The pages of this specification hold   *)
(* one session with one event.                                             *)
(***************************************************************************)

ClubsFiles ==
    <<FileRow(<<"7">>, <<"a">>, "downloaded", TRUE),
      FileRow(<<"8">>, NoneText, "lenex_not_found", FALSE)>>

ClubsInit ==
    /\ time_text = <<>>
    /\ time_src = [form |-> "none", h |-> 0, sep |-> <<>>, frac |-> <<>>]
    /\ parsed = [p \in Parsers |-> Pending]
    /\ lx_meet = {}
    /\ lx_session = {}
    /\ lx_event = {}
    /\ lx_heat = {}
    /\ lx_club = {}
    /\ lx_athlete = {}
    /\ lx_athleteclubaffiliation = {}
    /\ lx_result = {}
    /\ lx_split = {}
    /\ importedlenexfile = ClubsFiles
    /\ serial = SerialStart
    /\ committed = [EmptyTables EXCEPT !.importedlenexfile = importedlenexfile]
    /\ imp = [ImpIdle EXCEPT !.runs = MaxRuns - 1]
    /\ scr = [ScrIdle EXCEPT !.runs = MaxScrapeRuns - 1,
                             !.used = [sessions |-> MaxScrapeSessions - 1,
                                       events |-> MaxScrapeEvents - 1, rows |-> 0]]
    /\ resolved = {}

\* The scraper runs while the import is not running.
ClubsScrape == imp.pc \in {"idle", "done"} /\ PagesNext

\* The import runs while the scraper is not running.
ClubsImport ==
    /\ scr.pc \in {"idle", "done"}
    /\ \/ MainSelect
       \/ MainNext
       \/ MainDone
       \/ ImportCheckId
       \/ ImportMeet
       \/ ImportMeetDates
       \/ ImportClub
       \/ ImportFinish
       \/ MainHandle

ClubsNext == ClubsScrape \/ ClubsImport

SpecClubs == ClubsInit /\ [][ClubsNext]_vars

(***************************************************************************)
(* The per-heat scrape of the meet without a file, then a structured       *)
(* import of one document, on one database.  The pages hold one session,   *)
(* one event and one result row; the document holds one session, event,    *)
(* heat, club, athlete and result.                                         *)
(***************************************************************************)

OutcomeInit ==
    /\ time_text = <<>>
    /\ time_src = [form |-> "none", h |-> 0, sep |-> <<>>, frac |-> <<>>]
    /\ parsed = [p \in Parsers |-> Pending]
    /\ lx_meet = {}
    /\ lx_session = {}
    /\ lx_event = {}
    /\ lx_heat = {}
    /\ lx_club = {}
    /\ lx_athlete = {}
    /\ lx_athleteclubaffiliation = {}
    /\ lx_result = {}
    /\ lx_split = {}
    /\ importedlenexfile = ClubsFiles
    /\ serial = SerialStart
    /\ committed = [EmptyTables EXCEPT !.importedlenexfile = importedlenexfile]
    /\ imp = [ImpIdle EXCEPT !.runs = MaxRuns - 1,
                             !.used = [sessions |-> MaxSessions - 1,
                                       events |-> MaxEvents - 1,
                                       heats |-> MaxHeats - 1,
                                       clubs |-> MaxClubs - 1,
                                       athletes |-> MaxAthletes - 1,
                                       results |-> MaxResults - 1,
                                       splits |-> MaxSplits]]
    /\ scr = [ScrIdle EXCEPT !.runs = MaxScrapeRuns - 1,
                             !.used = [sessions |-> MaxScrapeSessions - 1,
                                       events |-> MaxScrapeEvents - 1,
                                       rows |-> MaxRows - 1]]
    /\ resolved = {}

\* The scraper runs first.
OutcomeScrape == imp.pc = "idle" /\ PagesNext

\* The import runs when the scraper is done.
OutcomeImport == scr.pc = "done" /\ ImportNext

OutcomeNext == OutcomeScrape \/ OutcomeImport

SpecOutcome == OutcomeInit /\ [][OutcomeNext]_vars

(***************************************************************************)
(* The three adapters run after run on one database, one run at a time:    *)
(* MaxRuns runs of the import and MaxScrapeRuns runs of the scrapers, in   *)
(* any order.  The document holds a meet and one club; the pages hold one  *)
(* session and one event and no result row.                                *)
(***************************************************************************)

HandoffInit ==
    /\ time_text = <<>>
    /\ time_src = [form |-> "none", h |-> 0, sep |-> <<>>, frac |-> <<>>]
    /\ parsed = [p \in Parsers |-> Pending]
    /\ lx_meet = {}
    /\ lx_session = {}
    /\ lx_event = {}
    /\ lx_heat = {}
    /\ lx_club = {}
    /\ lx_athlete = {}
    /\ lx_athleteclubaffiliation = {}
    /\ lx_result = {}
    /\ lx_split = {}
    /\ \E r \in FileRows : importedlenexfile = <<r, OtherFile>>
    /\ serial = SerialStart
    /\ committed = [EmptyTables EXCEPT !.importedlenexfile = importedlenexfile]
    /\ imp = [ImpIdle EXCEPT !.used = [sessions |-> MaxSessions,
                                       events |-> MaxEvents,
                                       heats |-> MaxHeats,
                                       clubs |-> MaxClubs - 1,
                                       athletes |-> MaxAthletes,
                                       results |-> MaxResults,
                                       splits |-> MaxSplits]]
    /\ scr = [ScrIdle EXCEPT !.used = [sessions |-> MaxScrapeSessions - 1,
                                       events |-> MaxScrapeEvents - 1,
                                       rows |-> MaxRows]]
    /\ resolved = {}

\* A run of the import while no scraper is running.
HandoffImport == scr.pc \in {"idle", "done"} /\ ImportNext

\* A run of a scraper while the import is not running.
HandoffScrape == imp.pc \in {"idle", "done"} /\ ScrapeNext

HandoffNext == HandoffImport \/ HandoffScrape

SpecHandoff == HandoffInit /\ [][HandoffNext]_vars

(***************************************************************************)
(* The adapters on one meet.  The record of meet 7 is read by the import   *)
(* or by a scraper, depending on its status; between two runs the owner of *)
(* the record, who is not one of the adapters, can hand it over again,     *)
(* with the file or without it.  The document holds a meet and its         *)
(* sessions; the pages hold one session and one event and no result row.   *)
(***************************************************************************)

MeetFiles ==
    {<<FileRow(<<"7">>, <<"a">>, "downloaded", TRUE)>>,
     <<FileRow(<<"7">>, NoneText, "lenex_not_found", FALSE)>>}

MeetInit ==
    /\ time_text = <<>>
    /\ time_src = [form |-> "none", h |-> 0, sep |-> <<>>, frac |-> <<>>]
    /\ parsed = [p \in Parsers |-> Pending]
    /\ lx_meet = {}
    /\ lx_session = {}
    /\ lx_event = {}
    /\ lx_heat = {}
    /\ lx_club = {}
    /\ lx_athlete = {}
    /\ lx_athleteclubaffiliation = {}
    /\ lx_result = {}
    /\ lx_split = {}
    /\ importedlenexfile \in MeetFiles
    /\ serial = SerialStart
    /\ committed = [EmptyTables EXCEPT !.importedlenexfile = importedlenexfile]
    /\ imp = [ImpIdle EXCEPT !.used = [sessions |-> 0,
                                       events |-> MaxEvents,
                                       heats |-> MaxHeats,
                                       clubs |-> MaxClubs,
                                       athletes |-> MaxAthletes,
                                       results |-> MaxResults,
                                       splits |-> MaxSplits]]
    /\ scr = [ScrIdle EXCEPT !.used = [sessions |-> MaxScrapeSessions - 1,
                                       events |-> MaxScrapeEvents - 1,
                                       rows |-> MaxRows]]
    /\ resolved = {}

\* No adapter is running.
BetweenRuns == imp.pc \in {"idle", "done"} /\ scr.pc \in {"idle", "done"}

\* The record's owner sets a record an adapter has finished with back to a
\* status an adapter reads: the file has been downloaded, or it is declared
\* missing.
Requeue ==
    /\ BetweenRuns
    /\ \E k \in DOMAIN importedlenexfile :
          /\ importedlenexfile[k].status
                \in {"processed", "processing_failed", "scraped", "scrape_failed"}
          /\ \E f \in {FileRow(importedlenexfile[k].onlineeventid, <<"a">>, "downloaded", TRUE),
                       FileRow(importedlenexfile[k].onlineeventid, NoneText,
                               "lenex_not_found", FALSE)} :
                importedlenexfile' = [importedlenexfile EXCEPT ![k] = f]
    /\ UNCHANGED <<codecVars, lx_meet, lx_session, lx_event, lx_heat, lx_club,
                   lx_athlete, lx_athleteclubaffiliation, lx_result, lx_split,
                   serial, imp, scr, resolved>>
    /\ committed' = TablesAfter

\* A run of the import while no scraper is running.
MeetImport == scr.pc \in {"idle", "done"} /\ ImportNext

\* A run of a scraper while the import is not running.
MeetScrape == imp.pc \in {"idle", "done"} /\ ScrapeNext

MeetNext == MeetImport \/ MeetScrape \/ Requeue

SpecMeet == MeetInit /\ [][MeetNext]_vars

(***************************************************************************)
(* The structured import run again on the record of meet 7, which its      *)
(* owner hands over again after the first run.  The documents hold a meet, *)
(* clubs and athletes.                                                     *)
(***************************************************************************)

ReimportInit ==
    /\ time_text = <<>>
    /\ time_src = [form |-> "none", h |-> 0, sep |-> <<>>, frac |-> <<>>]
    /\ parsed = [p \in Parsers |-> Pending]
    /\ lx_meet = {}
    /\ lx_session = {}
    /\ lx_event = {}
    /\ lx_heat = {}
    /\ lx_club = {}
    /\ lx_athlete = {}
    /\ lx_athleteclubaffiliation = {}
    /\ lx_result = {}
    /\ lx_split = {}
    /\ importedlenexfile = <<FileRow(<<"7">>, <<"a">>, "downloaded", TRUE)>>
    /\ serial = SerialStart
    /\ committed = [EmptyTables EXCEPT !.importedlenexfile = importedlenexfile]
    /\ imp = [ImpIdle EXCEPT !.used = [sessions |-> MaxSessions,
                                       events |-> MaxEvents,
                                       heats |-> MaxHeats,
                                       clubs |-> 0,
                                       athletes |-> 0,
                                       results |-> MaxResults,
                                       splits |-> MaxSplits]]
    /\ scr = ScrIdle
    /\ resolved = {}

ReimportImport == scr.pc = "idle" /\ ImportNext

ReimportNext == ReimportImport \/ Requeue

SpecReimport == ReimportInit /\ [][ReimportNext]_vars

(***************************************************************************)
(* The structured import of a document with one club and one athlete and   *)
(* the per-heat scraper reading one result row, one run each on one        *)
(* database, in either order.                                              *)
(***************************************************************************)

MergeInit ==
    /\ time_text = <<>>
    /\ time_src = [form |-> "none", h |-> 0, sep |-> <<>>, frac |-> <<>>]
    /\ parsed = [p \in Parsers |-> Pending]
    /\ lx_meet = {}
    /\ lx_session = {}
    /\ lx_event = {}
    /\ lx_heat = {}
    /\ lx_club = {}
    /\ lx_athlete = {}
    /\ lx_athleteclubaffiliation = {}
    /\ lx_result = {}
    /\ lx_split = {}
    /\ importedlenexfile = ClubsFiles
    /\ serial = SerialStart
    /\ committed = [EmptyTables EXCEPT !.importedlenexfile = importedlenexfile]
    /\ imp = [ImpIdle EXCEPT !.runs = MaxRuns - 1,
                             !.used = [sessions |-> MaxSessions,
                                       events |-> MaxEvents,
                                       heats |-> MaxHeats,
                                       clubs |-> MaxClubs - 1,
                                       athletes |-> MaxAthletes - 1,
                                       results |-> MaxResults,
                                       splits |-> MaxSplits]]
    /\ scr = [ScrIdle EXCEPT !.runs = MaxScrapeRuns - 1,
                             !.used = [sessions |-> MaxScrapeSessions - 1,
                                       events |-> MaxScrapeEvents - 1,
                                       rows |-> MaxRows - 1]]
    /\ resolved = {}

MergeImport == scr.pc \in {"idle", "done"} /\ ImportNext

MergeScrape == imp.pc \in {"idle", "done"} /\ PagesNext

MergeNext == MergeImport \/ MergeScrape

SpecMerge == MergeInit /\ [][MergeNext]_vars

(***************************************************************************)
(* The structured import of one document with one session, up to two       *)
(* events and two heats, one club, one athlete and one result.             *)
(***************************************************************************)

KeysInit ==
    /\ time_text = <<>>
    /\ time_src = [form |-> "none", h |-> 0, sep |-> <<>>, frac |-> <<>>]
    /\ parsed = [p \in Parsers |-> Pending]
    /\ lx_meet = {}
    /\ lx_session = {}
    /\ lx_event = {}
    /\ lx_heat = {}
    /\ lx_club = {}
    /\ lx_athlete = {}
    /\ lx_athleteclubaffiliation = {}
    /\ lx_result = {}
    /\ lx_split = {}
    /\ importedlenexfile = <<FileRow(<<"7">>, <<"a">>, "downloaded", TRUE)>>
    /\ serial = SerialStart
    /\ committed = [EmptyTables EXCEPT !.importedlenexfile = importedlenexfile]
    /\ imp = [ImpIdle EXCEPT !.runs = MaxRuns - 1,
                             !.used = [sessions |-> MaxSessions - 1,
                                       events |-> 0,
                                       heats |-> 0,
                                       clubs |-> MaxClubs - 1,
                                       athletes |-> MaxAthletes - 1,
                                       results |-> MaxResults - 1,
                                       splits |-> MaxSplits - 1]]
    /\ scr = ScrIdle
    /\ resolved = {}

KeysImport == scr.pc = "idle" /\ ImportNext

KeysNext == KeysImport

SpecKeys == KeysInit /\ [][KeysNext]_vars

(***************************************************************************)
(* One run of the per-heat scraper, which goes on while it has a step to   *)
(* take: nothing in the program waits for another process, and every page  *)
(* fetch returns or raises (timeout=30).                                   *)
(***************************************************************************)

TraverseInit ==
    /\ time_text = <<>>
    /\ time_src = [form |-> "none", h |-> 0, sep |-> <<>>, frac |-> <<>>]
    /\ parsed = [p \in Parsers |-> Pending]
    /\ lx_meet = {}
    /\ lx_session = {}
    /\ lx_event = {}
    /\ lx_heat = {}
    /\ lx_club = {}
    /\ lx_athlete = {}
    /\ lx_athleteclubaffiliation = {}
    /\ lx_result = {}
    /\ lx_split = {}
    /\ importedlenexfile = ScrapeFiles
    /\ serial = SerialStart
    /\ committed = [EmptyTables EXCEPT !.importedlenexfile = importedlenexfile]
    /\ imp = ImpIdle
    /\ scr = [ScrIdle EXCEPT !.runs = MaxScrapeRuns - 1, !.used.rows = MaxRows - 1]
    /\ resolved = {}

TraverseScrape == imp.pc = "idle" /\ PagesNext

TraverseNext == TraverseScrape

SpecTraverse == TraverseInit /\ [][TraverseNext]_vars /\ WF_vars(TraverseNext)

(***************************************************************************)
(* Two processes on one database: the structured import of meet 7 and the  *)
(* per-heat scraper of meet 8, each inside its open transaction and at its *)
(* club resolution, which is a SELECT followed, when no row is found, by   *)
(* an INSERT.  Each statement is one step, and the steps of the two        *)
(* processes interleave.  A SELECT sees the committed rows and the rows    *)
(* its own transaction inserted (READ COMMITTED, the default of the        *)
(* connections the scripts open).                                          *)
(***************************************************************************)

\* The club rows a transaction sees: those committed and its own.
VisibleClubs(mine) == committed.lx_club \cup {c \in lx_club : c.id \in mine}

\* The club names the result rows of a page can carry.
PageClubNames == {row.club_name : row \in PageRows}

ParallelInit ==
    /\ time_text = <<>>
    /\ time_src = [form |-> "none", h |-> 0, sep |-> <<>>, frac |-> <<>>]
    /\ parsed = [p \in Parsers |-> Pending]
    /\ lx_meet = {}
    /\ lx_session = {}
    /\ lx_event = {}
    /\ lx_heat = {}
    /\ lx_club = {}
    /\ lx_athlete = {}
    /\ lx_athleteclubaffiliation = {}
    /\ lx_result = {}
    /\ lx_split = {}
    /\ importedlenexfile = ClubsFiles
    /\ serial = SerialStart
    /\ committed = [EmptyTables EXCEPT !.importedlenexfile = importedlenexfile]
    /\ imp = [ImpIdle EXCEPT !.pc = "clubs", !.cur = 1, !.meet_id = 7,
                             !.onlineeventid = <<"7">>, !.runs = MaxRuns]
    /\ scr = [ScrIdle EXCEPT !.adapter = "result_pages", !.pc = "rows", !.cur = 2,
                             !.meet_id = 8, !.runs = MaxScrapeRuns]
    /\ resolved = {}

\* import_lenex_file: the SELECT of one CLUB element's code.
ParImportSelect ==
    /\ imp.pc = "clubs"
    /\ imp.used.clubs < MaxClubs
    /\ \E club_elem \in ClubElems :
          /\ ~(Falsy(club_elem.code) /\ club_elem.name = NoneText)
          /\ LET club_code == Or(club_elem.code, Take(club_elem.name, 32))
                 row == ClubLookup(VisibleClubs(imp.mine), club_code)
             IN
             IF row # 0
             THEN /\ imp' = [imp EXCEPT !.club_elem = club_elem, !.club_id = row,
                                        !.club_code_to_id = DictSet(@, club_code, row),
                                        !.used.clubs = @ + 1]
                  /\ resolved' = resolved \cup {<<club_code, row>>}
             ELSE /\ imp' = [imp EXCEPT !.pc = "insert_club", !.club_elem = club_elem,
                                        !.used.clubs = @ + 1]
                  /\ UNCHANGED resolved
    /\ UNCHANGED <<codecVars, dbVars, scr>>

\* import_lenex_file: the INSERT that follows a SELECT without a row.
ParImportInsert ==
    /\ imp.pc = "insert_club"
    /\ LET club_elem == imp.club_elem
           club_code == Or(club_elem.code, Take(club_elem.name, 32))
           club_name == Or(club_elem.name, club_code)
           nation == Take(Or(club_elem.nation, <<>>), 3)
           id == serial.lx_club
       IN
       /\ lx_club' = lx_club \cup
             {[id |-> id, lenexclubcode |-> club_code, name |-> club_name,
               nation |-> Or(nation, NoneText)]}
       /\ serial' = [serial EXCEPT !.lx_club = id + 1]
       /\ resolved' = resolved \cup {<<club_code, id>>}
       /\ imp' = [imp EXCEPT !.pc = "clubs", !.club_id = id, !.mine = @ \cup {id},
                             !.club_code_to_id = DictSet(@, club_code, id)]
    /\ UNCHANGED <<codecVars, scr, lx_meet, lx_session, lx_event, lx_heat, lx_athlete,
                   lx_athleteclubaffiliation, lx_result, lx_split,
                   importedlenexfile, committed>>

\* import_lenex_file: conn.commit() after the last club.
ParImportCommit ==
    /\ imp.pc = "clubs"
    /\ committed' = [committed EXCEPT
                       !.lx_club = @ \cup {c \in lx_club : c.id \in imp.mine}]
    /\ imp' = [imp EXCEPT !.pc = "done", !.outcome = "True", !.mine = {}]
    /\ UNCHANGED <<codecVars, scr, resolved, tableVars, serial>>

\* scrape_and_import: the SELECT of the club code of one result row.
ParPagesSelect ==
    /\ scr.pc = "rows"
    /\ scr.used.rows < MaxRows
    /\ \E club_name \in PageClubNames :
          LET club_code == Or(Take(Or(club_name, <<>>), 32), T_UNK)
              row == ClubLookup(VisibleClubs(scr.mine), club_code)
          IN
          IF row # 0
          THEN /\ scr' = [scr EXCEPT !.club_name = club_name, !.club_id = row,
                                     !.used.rows = @ + 1]
               /\ resolved' = resolved \cup {<<club_code, row>>}
          ELSE /\ scr' = [scr EXCEPT !.pc = "insert_club", !.club_name = club_name,
                                     !.used.rows = @ + 1]
               /\ UNCHANGED resolved
    /\ UNCHANGED <<codecVars, dbVars, imp>>

\* scrape_and_import: the INSERT that follows a SELECT without a row.
ParPagesInsert ==
    /\ scr.pc = "insert_club"
    /\ LET club_code == Or(Take(Or(scr.club_name, <<>>), 32), T_UNK)
           id == serial.lx_club
       IN
       /\ lx_club' = lx_club \cup
             {[id |-> id, lenexclubcode |-> club_code,
               name |-> Or(scr.club_name, club_code), nation |-> T_HUN]}
       /\ serial' = [serial EXCEPT !.lx_club = id + 1]
       /\ resolved' = resolved \cup {<<club_code, id>>}
       /\ scr' = [scr EXCEPT !.pc = "rows", !.club_id = id, !.mine = @ \cup {id}]
    /\ UNCHANGED <<codecVars, imp, lx_meet, lx_session, lx_event, lx_heat, lx_athlete,
                   lx_athleteclubaffiliation, lx_result, lx_split,
                   importedlenexfile, committed>>

\* scrape_and_import: conn.commit() at the end of the session.
ParPagesCommit ==
    /\ scr.pc = "rows"
    /\ committed' = [committed EXCEPT
                       !.lx_club = @ \cup {c \in lx_club : c.id \in scr.mine}]
    /\ scr' = [scr EXCEPT !.pc = "done", !.outcome = "done", !.mine = {}]
    /\ UNCHANGED <<codecVars, imp, resolved, tableVars, serial>>

ParallelNext ==
    \/ ParImportSelect
    \/ ParImportInsert
    \/ ParImportCommit
    \/ ParPagesSelect
    \/ ParPagesInsert
    \/ ParPagesCommit

SpecParallel == ParallelInit /\ [][ParallelNext]_vars

(***************************************************************************)
(* The time codec: claims                                                  *)
(***************************************************************************)

\* C5 (as claimed): a valid time h below one hour, written as MM:SS.hh or as
\* HH:MM:SS.hh, is parsed back to h by each of the three parsers.
C5_RoundTripAllParsers ==
    \A p \in Parsers :
        (time_src.form \in {"MMSS", "HHMMSS"} /\ parsed[p] # Pending)
            => parsed[p] = Some(time_src.h)

\* The tokens of a result that is no finish.
NonFinishTokens ==
    {<<"N", "T">>, <<"D", "N", "S">>, <<"D", "S", "Q">>, <<"D", "Q">>,
     <<"S", "C", "R">>, <<"V", "L">>, <<"-">>, <<>>}

\* A character no number holds (int() accepts digits, a sign, blanks, "_").
NonNumericChar(c) == c \notin Digits \cup {" ", "-", "+", "_", "."}

\* The number of sep in s.
Count(s, sep) == Cardinality({i \in 1..Len(s) : s[i] = sep})

\* A field read as a whole number that is empty or holds a non-numeric character.
BadWholeField(f) ==
    Strip(f) = <<>> \/ \E i \in 1..Len(f) : NonNumericChar(f[i]) \/ f[i] = "."

\* A seconds field with more than one fractional separator, with an empty or
\* non-numeric whole part, or with a non-numeric character among the two
\* fraction characters that are kept.
BadSecondsField(f) ==
    \/ Count(f, ".") > 1
    \/ Count(f, ".") = 0 /\ BadWholeField(f)
    \/ /\ Count(f, ".") = 1
       /\ LET dot == FindFrom(f, ".", 1) IN
          \/ BadWholeField(SubSeq(f, 1, dot - 1))
          \/ \E i \in (dot + 1)..(dot + 2) : i <= Len(f) /\ NonNumericChar(f[i])

\* The text fails numeric parsing in parser p: among the colon-separated fields p
\* reads (three in import_lenex.py, two in the scrape adapters, none when the
\* result-page parser finds a clock pattern) one is malformed.
Malformed(p, text) ==
    LET t == Strip(Replace(text, ",", "."))
        fs == Split(t, ":")
        k == IF p = "import_lenex" THEN 3 ELSE 2
        n == IF Len(fs) < k THEN Len(fs) ELSE k
    IN  /\ text # NoneText
        /\ ~(p = "result_pages" /\ ClockMatches(t) # {})
        /\ \/ \E i \in 1..(n - 1) : BadWholeField(fs[i])
           \/ BadSecondsField(fs[n])

\* C6: no parser lets an error escape; each non-finish token, and each text
\* that fails numeric parsing, is parsed to None.
C6_NullSet ==
    \A p \in Parsers :
        parsed[p] # Pending =>
            /\ parsed[p].kind \in {"int", "None"}
            /\ time_text \in NonFinishTokens => parsed[p] = None
            /\ Malformed(p, time_text) => parsed[p] = None

\* C6 witness: a text with two fractional separators was parsed by all three.
C6_Witness ==
    /\ time_text = <<"1", ".", "2", ".", "3">>
    /\ \A p \in Parsers : parsed[p] = None

\* The hundredths a fraction stands for: one digit d is d * 10, and of two
\* or more digits the first two count.
FracHundredths(frac) ==
    IF Len(frac) = 1 THEN DigitVal(frac[1]) * 10
    ELSE DigitVal(frac[1]) * 10 + DigitVal(frac[2])

\* C7: the fraction is padded on the right or truncated to two digits, with
\* "," or "." as the separator: "1:02.9" is 6290 and "1:02.875" is 6287.
C7_PaddingRule ==
    \A p \in Parsers :
        (time_src.form = "frac" /\ parsed[p] # Pending)
            => parsed[p] = Some(time_src.h + FracHundredths(time_src.frac))

\* C7 witness: "1:02,875" was parsed to 6287 and by all three parsers.
C7_Witness ==
    /\ time_text = <<"1", ":", "0", "2", ",", "8", "7", "5">>
    /\ time_src.form = "frac"
    /\ \A p \in Parsers : parsed[p] = Some(6287)

(***************************************************************************)
(* The structured import's properties (checked under SpecImport)           *)
(***************************************************************************)

\* The tables import_lenex_file writes rows to.
CanonicalRows(t) ==
    <<t.lx_meet, t.lx_session, t.lx_event, t.lx_heat, t.lx_club, t.lx_athlete,
      t.lx_athleteclubaffiliation, t.lx_result, t.lx_split>>

\* C1: an athlete upsert of the structured adapter never overwrites a
\* present value: in every step, each column that is non-null in a stored
\* athlete row keeps its value.
C1_NeverOverwrites ==
    [][\A a \in lx_athlete : \A b \in lx_athlete' :
          a.id = b.id =>
             /\ (a.firstname # NoneText => b.firstname = a.firstname)
             /\ (a.lastname # NoneText => b.lastname = a.lastname)
             /\ (a.birthdate # NullDate => b.birthdate = a.birthdate)
             /\ (a.gender # NoneText => b.gender = a.gender)]_vars

\* C3: within one run of the structured import no two Result rows are
\* created for the same (event, heat, athlete): two rows of the same athlete
\* in the same heat are one row.
C3_ResultUnique ==
    \A r1 \in lx_result : \A r2 \in lx_result :
        (r1.athleteid = r2.athleteid /\ r1.heatid = r2.heatid) => r1.id = r2.id

\* import_lenex_file raised ValueError at an ATHLETE element.
AthleteAbort == imp.outcome = "ValueError" /\ imp.raised_at = "athlete"

\* C8: when an ATHLETE element has no athleteid or a non-numeric one, the
\* import stops there: the raising step and every later step write no
\* canonical row, and once main() has handled the error the record is
\* marked processing_failed and the Meet row and the rows written before the
\* failing athlete are committed as they were.
C8_AthleteAbort ==
    [][(imp'.outcome = "ValueError" /\ imp'.raised_at = "athlete") =>
          /\ CanonicalRows(TablesAfter) = CanonicalRows(Tables)
          /\ imp'.pc \in {"handler", "loop", "done"}
          /\ imp'.pc \in {"loop", "done"} =>
                /\ importedlenexfile'[imp'.cur].status = "processing_failed"
                /\ committed' = TablesAfter
                /\ \E m \in committed'.lx_meet : m.id = imp'.meet_id
                /\ \A r \in committed'.lx_result :
                      \E a \in committed'.lx_athlete : a.id = r.athleteid]_vars

\* An import aborted at its second athlete, after a club, an athlete and a
\* result of that athlete were written, and handled by main().
C8_Witness ==
    /\ AthleteAbort
    /\ imp.pc = "done"
    /\ imp.used.athletes = 1
    /\ lx_club # {} /\ lx_athlete # {} /\ lx_result # {}
    /\ committed.lx_result = lx_result
    /\ importedlenexfile[imp.cur].status = "processing_failed"

\* import_lenex_file raised ValueError for the record's meet id and main()
\* has handled it.
MeetIdAbortHandled ==
    imp.raised_at = "meet_id" /\ imp.pc \in {"loop", "done"}

\* C9: when the record's meet id is missing or not an integer, no canonical
\* row is created or changed and the record is marked processing_failed.
C9_MeetIdFatal ==
    MeetIdAbortHandled =>
        /\ CanonicalRows(Tables) = CanonicalRows(imp.before)
        /\ importedlenexfile[imp.cur].status = "processing_failed"

\* The document read was: one session, event, heat, club, athlete and one
\* RESULT, whose keys resolve and whose swimtime is a valid time, and the
\* import returned True.
HappyPath ==
    /\ imp.outcome = "True"
    /\ Cardinality(lx_session) = 1 /\ Cardinality(lx_event) = 1
    /\ Cardinality(lx_heat) = 1
    /\ imp.used.clubs = 1 /\ imp.used.athletes = 1 /\ imp.used.results = 1
    /\ DictGet(imp.eventid_to_lx_event, imp.res.eventid) # 0
    /\ DictGet(imp.heatid_to_lx_heat, imp.res.heatid) # 0
    /\ Lenex_parse_swimtime(imp.res.swimtime).kind = "int"

\* Exactly one Result row was created, with the parsed time and no status,
\* and the Meet row has the default course when the document gives none.
HappyOutcome ==
    /\ Cardinality(lx_result \ imp.before.lx_result) = 1
    /\ \A r \in lx_result \ imp.before.lx_result :
          /\ r.timehundredths = Lenex_parse_swimtime(imp.res.swimtime)
          /\ imp.res.swimtime = T_10250 => r.timehundredths = Some(6250)
          /\ r.status = NoneText
    /\ Falsy(imp.meet_elem.course) =>
          \E m \in lx_meet : m.id = imp.meet_id /\ m.course = T_LCM

\* C10 as stated: the happy path with a RESULT that has no status attribute
\* stores one Result row with the parsed time and a null status.
C10_HappyPath_AsStated ==
    (HappyPath /\ imp.res.status = NoneText) => HappyOutcome

\* C10: the happy path with a RESULT that has neither a status nor a
\* disqualified attribute stores one Result row with timehundredths =
\* parse(T) and status null, and the meet's course is 'LCM' when the
\* document gives none.
C10_HappyPath ==
    (HappyPath /\ imp.res.status = NoneText /\ imp.res.disqualified = NoneText)
        => HappyOutcome

\* The happy path with swimtime "1:02.50" and no course in the document.
C10_Witness ==
    /\ HappyPath
    /\ imp.pc = "done"
    /\ imp.res.swimtime = T_10250
    /\ imp.res.status = NoneText /\ imp.res.disqualified = NoneText
    /\ imp.meet_elem.course = NoneText
    /\ \E r \in lx_result : r.timehundredths = Some(6250) /\ r.status = NoneText
    /\ \E m \in lx_meet : m.course = T_LCM

(***************************************************************************)
(* The scrape adapters' properties (checked under SpecScrape)              *)
(***************************************************************************)

\* The (event, heat-number, athlete) triple of the row this step read.
FedKey == <<scr'.lx_event_id, scr'.heatnumber, scr'.umk>>

\* C2: within one scrape run at most one Result row is inserted for an
\* (event, heat-number, athlete) triple: a row whose triple was seen before
\* in the run is read without any insert, and no two Result rows share a
\* triple.
C2_PerRunDedup ==
    [][/\ (scr'.used.rows > scr.used.rows /\ FedKey \in scr.seen_heat_athlete)
            => CanonicalRows(TablesAfter) = CanonicalRows(Tables)
       /\ \A r1 \in lx_result' : \A r2 \in lx_result' :
             (r1.eventid = r2.eventid /\ r1.heatnumber = r2.heatnumber
                /\ r1.athleteid = r2.athleteid) => r1.id = r2.id]_vars

\* A triple was fed twice: the second row was skipped and one Result row is
\* stored for it.
C2_Witness ==
    /\ scr.dup_skips > 0
    /\ \E key \in scr.seen_heat_athlete :
          Cardinality({r \in lx_result : r.eventid = key[1] /\ r.heatnumber = Some(key[2])
                                          /\ r.athleteid = key[3]}) = 1

(***************************************************************************)
(* Club resolution across the adapters (checked under SpecClubs)           *)
(***************************************************************************)

\* The ids resolve-or-create calls returned for a club code.
ResolvedIds(code) == {p[2] : p \in {q \in resolved : q[1] = code}}

\* C4: every resolve-or-create call for a club code, by either adapter and
\* in whatever run, returns one and the same id, and no two club rows hold
\* the same code.
C4_IdempotentClubs ==
    \A code \in {p[1] : p \in resolved} :
        /\ Cardinality(ResolvedIds(code)) = 1
        /\ Cardinality({c \in lx_club : c.lenexclubcode = code}) <= 1


(***************************************************************************)
(* The discovery loop of the per-heat scraper: claims                      *)
(***************************************************************************)

\* The step in which a session's page shows no heats and the page of the
\* next session is fetched.
NoHeatsStep ==
    /\ scr.adapter = "result_pages" /\ scr.pc = "discover"
    /\ Len(scr'.probed) = Len(scr.probed) + 2

\* The call has left the discovery loop after two sessions without heats.
StoppedAfterTwoEmpty ==
    /\ scr.adapter = "result_pages" /\ scr.pc \in {"finally", "returned"}
    /\ scr.next_probe = "empty"

\* C11: when the page probed for session n has an empty heat selector and
\* the page of session n+1 has one too, the traversal ends having probed
\* exactly those two pages, and no Session, Event or Result row is created
\* for them: the step leaves the loop with the tables as they were, and the
\* rest of the call probes no page and adds no row.
C11_TwoEmptySessionsEnd ==
    [][/\ (NoHeatsStep /\ scr'.next_probe = "empty") =>
             /\ scr'.pc = "finally"
             /\ scr'.probed = scr.probed \o <<scr.session_id, scr.session_id + 1>>
             /\ lx_session' = lx_session /\ lx_event' = lx_event
             /\ lx_heat' = lx_heat /\ lx_result' = lx_result
             /\ ~\E s \in lx_session' :
                   /\ s.meetid = scr.meet_id
                   /\ s.sessionnumber \in {Some(scr.session_id), Some(scr.session_id + 1)}
       /\ StoppedAfterTwoEmpty =>
             /\ scr'.probed \in {scr.probed, <<>>}
             /\ lx_session' \subseteq lx_session /\ lx_event' \subseteq lx_event
             /\ lx_heat' \subseteq lx_heat /\ lx_result' \subseteq lx_result]_vars

\* The scrape of a meet whose first two session pages have no heats has
\* returned: two pages probed, no row but the meet's.
C11_Witness ==
    /\ scr.adapter = "result_pages" /\ scr.pc = "returned"
    /\ scr.next_probe = "empty"
    /\ scr.probed = <<1, 2>>
    /\ lx_meet # {}
    /\ lx_session = {} /\ lx_event = {} /\ lx_result = {}

\* C17: when the page probed for session n has an empty heat selector and
\* the page of session n+1 lists a heat, the traversal does not end: it
\* goes on with session n+1.
C17_ContinuesPastOneEmpty ==
    [][(NoHeatsStep /\ scr'.next_probe = "heats") =>
          /\ scr'.pc = "discover"
          /\ scr'.session_id = scr.session_id + 1]_vars


(***************************************************************************)
(* Non-finish outcomes (checked under SpecOutcome)                         *)
(***************************************************************************)

\* The non-finish tokens of a time attribute or time cell.
OutcomeTokens ==
    {<<"D", "S", "Q">>, <<"D", "Q">>, <<"D", "N", "S">>, <<"S", "C", "R">>}

\* The text is a non-finish token, in either case.
IsOutcomeToken(s) == s # NoneText /\ Upper(s) \in OutcomeTokens

\* A rank text that is a number.
NumericRank(s) == s # NoneText /\ s # <<>> /\ IsDigit(s)

\* The row's rank is the number of the rank text, null when the text is no
\* number.
RankFollows(r, rank_s) ==
    IF NumericRank(rank_s) THEN r.rank = Some(DigitsVal(rank_s, 0)) ELSE r.rank = None

\* The step reads one RESULT element of the document.
ImportResultStep ==
    imp.pc \in {"results", "splits"} /\ imp'.used.results = imp.used.results + 1

\* The step reads one row of a heat's result table.
PagesRowStep ==
    /\ scr.adapter = "result_pages" /\ scr.pc = "rows"
    /\ scr'.used.rows = scr.used.rows + 1

\* C12: a result whose swimtime attribute (structured import) or time cell
\* (per-heat scraper) is one of DSQ, DQ, DNS, SCR is stored with a null
\* timehundredths and, when it has no status or disqualified attribute, with
\* that token as its status; an attribute that is present is the status
\* instead, status before disqualified; the rank is the rank text's number
\* and null when there is none.
C12_NonFinishOutcome ==
    [][\A r \in lx_result' \ lx_result :
          /\ (ImportResultStep /\ IsOutcomeToken(imp'.res.swimtime)) =>
                LET res == imp'.res
                    explicit == Or(res.status, res.disqualified)
                IN  /\ r.timehundredths = None
                    /\ Falsy(explicit) => r.status = Upper(res.swimtime)
                    /\ ~Falsy(explicit) => r.status = Take(explicit, 10)
                    /\ ~Falsy(res.status) => r.status = Take(res.status, 10)
                    /\ RankFollows(r, Or(res.place, res.rank))
          /\ (PagesRowStep /\ IsOutcomeToken(scr'.cell.time_raw)) =>
                /\ r.timehundredths = None
                /\ r.status = Upper(scr'.cell.time_raw)
                /\ RankFollows(r, scr'.cell.rank_s)]_vars

\* The scraper stored a DSQ row that has a rank cell, and the import stored
\* a row for swimtime "Dsq" with no status, disqualified, place or rank
\* attribute.
C12_Witness ==
    /\ \E r \in lx_result :
          /\ r.heatid = 0 /\ r.status = <<"D", "S", "Q">>
          /\ r.timehundredths = None /\ r.rank = Some(3)
    /\ imp.pc = "done"
    /\ imp.res.swimtime = <<"D", "s", "q">> /\ imp.res.status = NoneText
    /\ \E r \in lx_result :
          /\ r.heatid # 0 /\ r.id = imp.result_id /\ r.status = <<"D", "S", "Q">>
          /\ r.timehundredths = None /\ r.rank = None


(***************************************************************************)
(* The status handoff (checked under SpecScrape and SpecImport)            *)
(***************************************************************************)

\* scrape_and_import has ended without reaching the eventdata or the
\* program page.
PageNotReached ==
    \/ scr.adapter = "result_pages" /\ scr.pc = "returned" /\ scr.outcome = "return"
    \/ scr.adapter = "results" /\ scr.pc = "raised"

\* The step in which __main__ writes the record's status after the call.
ScrapeMarkStep == scr.pc \in {"returned", "raised"} /\ scr'.pc \in {"loop", "done"}

\* C13: a record becomes 'scraped' only in the status write that follows a
\* scrape that reached its pages, and the status write that follows a scrape
\* that did not reach the eventdata or the program page sets 'scrape_failed'.
C13_ScrapeHandoff ==
    [][/\ \A k \in DOMAIN importedlenexfile :
             (importedlenexfile'[k].status = "scraped"
              /\ importedlenexfile[k].status # "scraped")
                => (ScrapeMarkStep /\ k = scr.cur /\ ~PageNotReached)
       /\ (ScrapeMarkStep /\ PageNotReached)
             => importedlenexfile'[scr.cur].status = "scrape_failed"]_vars


\* A record the structured adapter's SELECT reads.
ReadByImport(f) == f.status \in {"downloaded", "backed_up"} /\ f.filename # NoneText

\* The step in which main() writes the record's status after the import.
ImportMarkStep == imp.pc = "handler" /\ imp'.pc = "loop"

\* C14: when a run of main() ends, no record is left that its SELECT reads;
\* the status written for a record is 'processed' when import_lenex_file
\* returned True and 'processing_failed' otherwise, and a record becomes
\* 'processed' in no other way.
C14_StructuredHandoff ==
    [][/\ (imp.pc = "loop" /\ imp'.pc = "done") =>
             \A k \in DOMAIN importedlenexfile : ~ReadByImport(importedlenexfile'[k])
       /\ ImportMarkStep =>
             importedlenexfile'[imp.cur].status =
                IF imp.outcome = "True" THEN "processed" ELSE "processing_failed"
       /\ \A k \in DOMAIN importedlenexfile :
             (importedlenexfile'[k].status = "processed"
              /\ importedlenexfile[k].status # "processed")
                => (ImportMarkStep /\ k = imp.cur /\ imp.outcome = "True")]_vars


(***************************************************************************)
(* No retry (checked under SpecHandoff)                                    *)
(***************************************************************************)

\* The statuses the adapters write.
TerminalStatuses == {"processed", "processing_failed", "scraped", "scrape_failed"}

\* The rows that belong to the meet of id m.
RowsOfMeet(t, m) ==
    LET events == {e.id : e \in {x \in t.lx_event : x.meetid = m}}
        heats == {h.id : h \in {x \in t.lx_heat : x.eventid \in events}}
    IN  <<{x \in t.lx_meet : x.id = m},
          {x \in t.lx_session : x.meetid = m},
          {x \in t.lx_event : x.meetid = m},
          {x \in t.lx_heat : x.eventid \in events},
          {x \in t.lx_athleteclubaffiliation : x.sourcemeetid = m},
          {x \in t.lx_result : x.eventid \in events \/ x.heatid \in heats}>>

\* C15: a record whose status is processed, processing_failed, scraped or
\* scrape_failed is left as it is by every step of every adapter: it is in
\* no run's selection, no call is started for it, its status stays, and no
\* row of its meet is written.
C15_NoRetry ==
    [][\A k \in DOMAIN importedlenexfile :
          importedlenexfile[k].status \in TerminalStatuses =>
             /\ importedlenexfile'[k] = importedlenexfile[k]
             /\ k \notin imp'.todo /\ k \notin scr'.todo
             /\ imp'.cur = k => imp'.pc \in {"loop", "done"}
             /\ scr'.cur = k => scr'.pc \in {"loop", "done"}
             /\ PyInt(importedlenexfile[k].onlineeventid).kind = "int" =>
                   RowsOfMeet(TablesAfter, PyInt(importedlenexfile[k].onlineeventid).val)
                      = RowsOfMeet(Tables, PyInt(importedlenexfile[k].onlineeventid).val)]_vars

\* A second run of the import and a second run of a scraper have ended
\* with one record processed and the other scraped in earlier runs.
C15_Witness ==
    /\ imp.runs = 2 /\ imp.pc = "done"
    /\ scr.runs = 2 /\ scr.pc = "done"
    /\ importedlenexfile[1].status = "processed"
    /\ importedlenexfile[2].status = "scraped"
    /\ \E m \in lx_meet : m.id = 7
    /\ \E m \in lx_meet : m.id = 8


(***************************************************************************)
(* The meet and its sessions under both adapters (checked under SpecMeet)  *)
(***************************************************************************)

\* C16: when import_lenex_file has returned True the meet's datasource is
\* 'lenex', and a meet whose datasource is 'lenex' keeps it in every step,
\* the meet upsert of a later scrape included.
C16_StructuredProvenanceWins ==
    [][/\ (imp'.pc = "handler" /\ imp'.outcome = "True") =>
             \E m \in lx_meet' : m.id = imp'.meet_id /\ m.datasource = T_lenex
       /\ \A m \in lx_meet : \A n \in lx_meet' :
             (n.id = m.id /\ m.datasource = T_lenex) => n.datasource = T_lenex]_vars

\* A scraper has just upserted meet 7 from an eventdata page that names it
\* "S", and the datasource an earlier import wrote is still 'lenex'.
C16_Witness ==
    /\ scr.pc = "program" /\ scr.meet_id = 7
    /\ \E m \in lx_meet : m.id = 7 /\ m.name = <<"S">> /\ m.datasource = T_lenex

\* C18: a step changes name, startdate, enddate or course of an existing
\* Meet row only where the column is NULL.
C18_MeetFieldsOnlyFilled ==
    [][\A m \in lx_meet : \A n \in lx_meet' :
          n.id = m.id =>
             /\ (m.name # NoneText => n.name = m.name)
             /\ (m.startdate # NullDate => n.startdate = m.startdate)
             /\ (m.enddate # NullDate => n.enddate = m.enddate)
             /\ (m.course # NoneText => n.course = m.course)]_vars

\* C19: there is at most one Session row for each meet and session number,
\* and a Session row is never updated.
C19_SessionUnique ==
    [][/\ \A s1 \in lx_session' : \A s2 \in lx_session' :
             (s1.meetid = s2.meetid /\ s1.sessionnumber = s2.sessionnumber
              /\ s1.sessionnumber # None) => s1.id = s2.id
       /\ \A s \in lx_session : \A t \in lx_session' : t.id = s.id => t = s]_vars


(***************************************************************************)
(* The affiliation guard (checked under SpecReimport)                      *)
(***************************************************************************)

\* The (athlete, club, meet) triple is in the affiliation table.
HasTriple(affs, athlete_id, club_id, meet_id) ==
    \E f \in affs :
        f.athleteid = athlete_id /\ f.clubid = club_id /\ f.sourcemeetid = meet_id

\* The step stores one ATHLETE element of the document.
ImportAthleteStep ==
    /\ imp.pc \in {"athletes", "results", "splits"}
    /\ imp'.used.athletes = imp.used.athletes + 1

\* C20: the affiliation table holds at most one row for each (athlete,
\* club, meet) triple, and the import of an athlete whose triple is in the
\* table leaves the table as it is.
C20_AffiliationGuard ==
    [][/\ \A f1 \in lx_athleteclubaffiliation' : \A f2 \in lx_athleteclubaffiliation' :
             (f1.athleteid = f2.athleteid /\ f1.clubid = f2.clubid
              /\ f1.sourcemeetid = f2.sourcemeetid) => f1.id = f2.id
       /\ (ImportAthleteStep
           /\ HasTriple(lx_athleteclubaffiliation, imp'.athlete_id, imp.club_id, imp.meet_id))
             => lx_athleteclubaffiliation' = lx_athleteclubaffiliation]_vars

\* The second import of meet 7 has stored an athlete whose triple the first
\* import wrote: the one affiliation row is the row the call started with.
C20_Witness ==
    /\ imp.runs = 2 /\ imp.pc = "results"
    /\ imp.used.athletes = 2
    /\ HasTriple(lx_athleteclubaffiliation, imp.athlete_id, imp.club_id, imp.meet_id)
    /\ Cardinality(lx_athleteclubaffiliation) = 1
    /\ imp.before.lx_athleteclubaffiliation = lx_athleteclubaffiliation
    /\ serial.lx_athleteclubaffiliation = 2


(***************************************************************************)
(* Results whose keys do not resolve (checked under SpecImport)            *)
(***************************************************************************)

\* The RESULT names no event or no heat, or names one the mappings of this
\* pass do not hold.
Unresolvable(res, events, heats) ==
    \/ res.eventid = NoneText \/ res.eventid = <<>>
    \/ res.heatid = NoneText \/ res.heatid = <<>>
    \/ DictGet(events, res.eventid) = 0
    \/ DictGet(heats, res.heatid) = 0

\* The step reads one RESULT element.
ReadResultStep ==
    /\ imp.pc \in {"results", "splits"}
    /\ imp'.used.results = imp.used.results + 1

\* C21: a RESULT whose event or heat key is missing or unknown creates no
\* Result row and no Split row and does not end the import, which goes on
\* with the next element.
C21_UnresolvableSkipsOne ==
    [][(ReadResultStep
        /\ Unresolvable(imp'.res, imp.eventid_to_lx_event, imp.heatid_to_lx_heat))
         => /\ lx_result' = lx_result
            /\ lx_split' = lx_split
            /\ imp'.pc = "results"
            /\ imp'.outcome = imp.outcome
            /\ imp'.raised_at = imp.raised_at]_vars

\* The import returned True after two RESULT elements of which the first
\* was passed over and the second was stored.
C21_Witness ==
    /\ imp.outcome = "True" /\ imp.pc \in {"handler", "loop", "done"}
    /\ imp.used.results = 2
    /\ serial.lx_result = 2
    /\ imp.result_id = 1
    /\ ~Unresolvable(imp.res, imp.eventid_to_lx_event, imp.heatid_to_lx_heat)
    /\ \E r \in committed.lx_result : r.id = 1


(***************************************************************************)
(* The status column (checked under SpecOutcome)                           *)
(***************************************************************************)

\* The statuses a Result row may hold besides null.
StatusDomain ==
    {<<"D", "N", "S">>, <<"D", "S", "Q">>, <<"D", "Q">>, <<"D", "N", "F">>,
     <<"S", "C", "R">>}

\* C22: every Result row written by the structured import or by the
\* per-heat scraper has a status that is null or one of DNS, DSQ, DQ, DNF,
\* SCR.
C22_StatusDomain ==
    \A r \in lx_result : r.status = NoneText \/ r.status \in StatusDomain


(***************************************************************************)
(* Page fetch failures (checked under SpecScrape)                          *)
(***************************************************************************)

\* The positions of scrape_and_import inside its traversal of the sessions,
\* events and heats.
TraversalPcs == {"discover", "events", "heats", "rows"}

\* The step fetches a session, event, heat or category page, and the fetch
\* fails.
FetchFailedStep ==
    /\ scr.pc \in TraversalPcs
    /\ scr' # scr
    /\ scr'.fetch = "failed"

\* C23: a page fetch that fails inside the traversal does not end the
\* traversal, which goes on with the remaining heats, events and sessions.
C23_FetchFailureContinues ==
    [][FetchFailedStep => scr'.pc \in TraversalPcs]_vars


(***************************************************************************)
(* The discovery loop's event counter (checked under SpecScrape)           *)
(***************************************************************************)

\* The step ends the iteration of the discovery loop for one session.
EndSessionStep ==
    /\ scr.adapter = "result_pages"
    /\ scr.pc \in {"events", "heats", "rows"}
    /\ scr'.pc = "discover"

\* The greatest EventId among the (session, event) pairs met in this run.
MaxSeenEvent(seen) == MaxOf({p[2] : p \in seen})

\* C24: when the events of a session are exhausted, the event id the next
\* session is probed with is not below the one this session was probed
\* with, and is the greatest event id seen in the run plus one.
C24_EventCounterAdvance ==
    [][EndSessionStep =>
          /\ scr'.next_event_id >= scr.next_event_id
          /\ scr'.next_event_id = MaxSeenEvent(scr.seen_events) + 1]_vars


(***************************************************************************)
(* The scraper meeting a known athlete (checked under SpecMerge)           *)
(***************************************************************************)

\* The step stores the result of one row of a heat's result table.
PagesStoreStep == PagesRowStep /\ lx_result' # lx_result

\* C25: when the per-heat scraper stores a row of an athlete who has a row
\* already, the athlete's null birthdate becomes January 1 of the birth
\* year the page gives, and every non-null field stays as it is.
C25_ScrapeMergesOnHit ==
    [][PagesStoreStep =>
          \A a \in lx_athlete : a.id = scr'.umk =>
             \E b \in lx_athlete' :
                /\ b.id = a.id
                /\ b.firstname = a.firstname /\ b.lastname = a.lastname
                /\ b.gender = a.gender
                /\ b.birthdate = IF a.birthdate = NullDate /\ scr'.cell.birth_year # 0
                                 THEN JanFirst(scr'.cell.birth_year)
                                 ELSE a.birthdate]_vars


(***************************************************************************)
(* Results, heats and events (checked under SpecKeys)                      *)
(***************************************************************************)

\* C26: every Result row the import stores is attached to a Heat row that
\* belongs to the Event the RESULT's eventid names.
C26_ResultHeatEvent ==
    [][ReadResultStep =>
          \A r \in lx_result' \ lx_result :
             \E h \in lx_heat :
                /\ h.id = r.heatid
                /\ h.eventid = DictGet(imp.eventid_to_lx_event, imp'.res.eventid)]_vars


(***************************************************************************)
(* The traversal ends (checked under SpecTraverse)                         *)
(***************************************************************************)

\* The step stays inside the loops over one session's events and heats.
InnerLoopStep ==
    /\ scr.adapter = "result_pages"
    /\ scr.pc \in {"events", "heats", "rows"}
    /\ scr'.pc \in {"events", "heats", "rows"}

\* C27: every iteration of the discovery loop raises the session number,
\* the loops over a session's events and an event's heats run down lists
\* that do not grow, and a traversal that has begun reaches its end with
\* the connection closed.
C27_TraversalTerminates ==
    /\ [][EndSessionStep => scr'.session_id > scr.session_id]_vars
    /\ [][InnerLoopStep =>
             /\ scr'.event_options \subseteq scr.event_options
             /\ scr'.event_options = scr.event_options =>
                   /\ scr'.heat_ids = scr.heat_ids
                   /\ scr'.heat_pos >= scr.heat_pos]_vars
    /\ (scr.pc = "discover") ~> (scr.pc = "returned")

\* The traversal has ended, the connection closed, after two sessions with
\* heats and a third whose page was not served.
C27_Witness ==
    /\ scr.adapter = "result_pages" /\ scr.pc = "returned"
    /\ scr.session_id = 3 /\ scr.probed = <<1, 2, 3>>
    /\ scr.fetch = "failed"


(***************************************************************************)
(* Heat numbers (checked under SpecScrape)                                 *)
(***************************************************************************)

\* C28: in the per-heat scraper, the heats of the event being read that
\* have different heat ids have different heat numbers, each at least 1.
C28_HeatNumbersDistinct ==
    (scr.adapter = "result_pages" /\ scr.pc \in {"heats", "rows"}) =>
        \A i \in 1..Len(scr.heat_ids) : \A j \in 1..Len(scr.heat_ids) :
           /\ HeatNumber(scr.heat_ids, scr.heat_ids[i]) >= 1
           /\ scr.heat_ids[i] # scr.heat_ids[j] =>
                 HeatNumber(scr.heat_ids, scr.heat_ids[i])
                    # HeatNumber(scr.heat_ids, scr.heat_ids[j])


(***************************************************************************)
(* Club resolution by two processes (checked under SpecParallel)           *)
(***************************************************************************)

\* C29: after the import and the scraper have run in parallel, each club
\* code has at most one row, and every resolution of a code gave the same
\* row.
C29_ParallelClubResolution ==
    (imp.pc = "done" /\ scr.pc = "done") =>
        /\ \A c1 \in lx_club : \A c2 \in lx_club :
              c1.lenexclubcode = c2.lenexclubcode => c1.id = c2.id
        /\ \A p \in resolved : \A q \in resolved : p[1] = q[1] => p[2] = q[2]


(***************************************************************************)
(* Sign of the parsed times (checked under SpecCodec)                      *)
(***************************************************************************)

\* C30: whatever text a time parser is given, its result is null or a
\* number of centiseconds that is not negative.
C30_ParsedNeverNegative ==
    \A p \in Parsers : parsed[p].kind = "int" => parsed[p].val >= 0

============================================================================
